---- MODULE Spec2Model ----
(***************************************************************************)
(* Rental billing backend: contracts, charges and users.                   *)
(* The state is the content of the database tables; every action is one    *)
(* service call executed to completion (one request, one commit).          *)
(***************************************************************************)
EXTENDS Integers, FiniteSets, Sequences, TLC

(***************************************************************************)
(* Bounds of the model.                                                    *)
(***************************************************************************)
\* number of consecutive calendar months requests may name, from BaseMonth/BaseYear
MaxMonths == 2
\* first month requests may name (December, so that the window crosses a year)
BaseMonth == 12
BaseYear == 2024
\* contract ids handed out by the contracts table
MaxContracts == 2
\* charge ids handed out by the charges table
MaxCharges == 2
\* rows of the apartments table
MaxApartments == 3
\* requests served at the same time
MaxSessions == 2
\* rows of the users table
MaxUsers == 4

(***************************************************************************)
(* Python values.                                                          *)
(***************************************************************************)
\* None
Null == 0
\* a key that is not in the update_fields dict (field left out of the patch)
Absent == -1

\* roles seeded by the first migration: the ids are the insertion order
ROLE_ADMIN == 1
ROLE_TENANT == 2
ROLE_ACCOUNTANT == 3

RoleName(role_id) ==
    IF role_id = ROLE_ADMIN THEN "admin"
    ELSE IF role_id = ROLE_TENANT THEN "tenant"
    ELSE "accountant"

(***************************************************************************)
(* Dates.  A datetime.date is the integer yyyymmdd, so that the order of   *)
(* dates is the order of integers.                                         *)
(***************************************************************************)
Date(year, month, day) == year * 10000 + month * 100 + day

DateYear(d) == d \div 10000
DateMonth(d) == (d \div 100) % 100
DateDay(d) == d % 100

\* the leap year rule without the century exception
IsLeapEveryFourth(year) == year % 4 = 0

IsLeap(year) == (year % 4 = 0 /\ year % 100 # 0) \/ year % 400 = 0

\* calendar.monthrange(year, month)[1]
MonthRange(year, month) ==
    IF month = 2 THEN (IF IsLeap(year) THEN 29 ELSE 28)
    ELSE IF month \in {4, 6, 9, 11} THEN 30
    ELSE 31

\* _get_last_day_of_month
GetLastDayOfMonth(year, month) == Date(year, month, MonthRange(year, month))

\* the (month, year) pairs a request may carry
MonthOf(i) == ((BaseMonth - 1 + i) % 12) + 1
YearOf(i) == BaseYear + ((BaseMonth - 1 + i) \div 12)
MonthIdx == 0 .. (MaxMonths - 1)

\* update_fields.get(key): None when the key is missing
Get(p, f) == IF p[f] = Absent THEN Null ELSE p[f]
\* key in update_fields
Has(p, f) == p[f] # Absent

(***************************************************************************)
(* State: the tables.                                                      *)
(***************************************************************************)
VARIABLES
    users,              \* users table: id -> [role_id]
    apartments,         \* apartments table: id -> [floor, letter]
    contracts,          \* contracts table: id -> row
    charges,            \* charges table: id -> row
    next_contract_id,   \* autoincrement of contracts.id
    next_charge_id,     \* autoincrement of charges.id
    last,               \* the last request served: [op, id, result]
    pending             \* session -> the request it has validated and not yet committed

vars ==
    <<users, apartments, contracts, charges, next_contract_id, next_charge_id, last, pending>>

\* the database sessions of the requests in flight (get_db: one session a request)
Sessions == 1 .. MaxSessions
\* a session with no request between its reads and its commit
Idle == [op |-> "idle"]

\* outcomes of a request
OK == "ok"
NotFound == "NotFound"
DuplicateResource == "DuplicateResource"
DomainValidation == "DomainValidation"
\* the commit is refused by a table constraint: sqlalchemy.exc.IntegrityError,
\* which is not a DomainError
IntegrityError == "IntegrityError"

Fail(kind) == [result |-> kind, row |-> Null]
Done(r) == [result |-> OK, row |-> r]

Put(table, id, row) == [i \in DOMAIN table \cup {id} |-> IF i = id THEN row ELSE table[i]]
\* Session.delete of a row and commit: the row is removed (charge_repo.delete_charge,
\* user_repo.delete_user and apartment_repo.delete_apartment are called by the
\* services but their definitions are not part of the repository modules)
Drop(table, id) == [i \in DOMAIN table \ {id} |-> table[i]]

EmptyTable == [i \in {} |-> Null]

Init ==
    /\ users = (1 :> [role_id |-> ROLE_ADMIN]) @@ (2 :> [role_id |-> ROLE_TENANT])
                 @@ (3 :> [role_id |-> ROLE_TENANT])
    /\ apartments = (1 :> [floor |-> 1, letter |-> "A"]) @@ (2 :> [floor |-> 1, letter |-> "B"])
    /\ contracts = EmptyTable
    /\ charges = EmptyTable
    /\ next_contract_id = 1
    /\ next_charge_id = 1
    /\ pending = [s \in Sessions |-> Idle]
    /\ last = [op |-> "none", id |-> Null, result |-> OK]

(***************************************************************************)
(* Repositories (pure data access).                                        *)
(***************************************************************************)
\* user_repo.get_user_by_id
get_user_by_id(user_id) == IF user_id \in DOMAIN users THEN user_id ELSE Null

\* apartment_repo.get_apartment_by_id
get_apartment_by_id(apartment_id) ==
    IF apartment_id \in DOMAIN apartments THEN apartment_id ELSE Null

\* contract_repo.get_contract_by_id
get_contract_by_id(contract_id) ==
    IF contract_id \in DOMAIN contracts THEN contract_id ELSE Null

\* the lookup with the apartment filter left out
get_contract_by_start_date_only(start_date, apartment_id) ==
    LET hits == {c \in DOMAIN contracts : contracts[c].start_date = start_date}
    IN IF hits = {} THEN Null ELSE CHOOSE c \in hits : \A d \in hits : c <= d

\* contract_repo.get_contract_by_start_date_and_apartment: the id of a row with
\* that start date and apartment (.first()), or None
get_contract_by_start_date_and_apartment(start_date, apartment_id) ==
    LET hits == {c \in DOMAIN contracts :
                    /\ contracts[c].start_date = start_date
                    /\ contracts[c].apartment_id = apartment_id}
    IN IF hits = {} THEN Null ELSE CHOOSE c \in hits : \A d \in hits : c <= d

\* the constraints of the contracts table (migration 004, model Contract):
\* NOT NULL columns, foreign keys, the unique (start_date, apartment_id) pair,
\* start_date on the first of the month, adjustment_months > 0
ContractsTableAccepts(id, row) ==
    /\ row.user_id # Null /\ row.user_id \in DOMAIN users
    /\ row.apartment_id # Null /\ row.apartment_id \in DOMAIN apartments
    /\ row.start_date # Null /\ DateDay(row.start_date) = 1
    /\ row.adjustment_months = Null \/ row.adjustment_months > 0
    /\ \A c \in DOMAIN contracts \ {id} :
          ~(contracts[c].start_date = row.start_date
            /\ contracts[c].apartment_id = row.apartment_id)

\* contract_repo.create_contract: the row that is added
ContractRepoCreate(user_id, apartment_id, start_date, end_date, adjustment_months) ==
    [user_id |-> user_id, apartment_id |-> apartment_id, start_date |-> start_date,
     end_date |-> end_date, adjustment_months |-> adjustment_months]

\* the update with end_date assigned only when its value is truthy
\* ("if kwargs.get('end_date')"): an end date is never cleared
ContractRepoUpdateTruthyEnd(contract, kwargs) ==
    [user_id |-> IF Has(kwargs, "user_id") THEN kwargs.user_id ELSE contract.user_id,
     apartment_id |-> IF Has(kwargs, "apartment_id") THEN kwargs.apartment_id
                      ELSE contract.apartment_id,
     start_date |-> IF Has(kwargs, "start_date") THEN kwargs.start_date
                    ELSE contract.start_date,
     end_date |-> IF Has(kwargs, "end_date") /\ kwargs.end_date # Null THEN kwargs.end_date
                  ELSE contract.end_date,
     adjustment_months |-> IF Has(kwargs, "adjustment_months") THEN kwargs.adjustment_months
                           ELSE contract.adjustment_months]

\* contract_repo.update_contract: only the keys of kwargs are assigned
ContractRepoUpdate(contract, kwargs) ==
    [user_id |-> IF Has(kwargs, "user_id") THEN kwargs.user_id ELSE contract.user_id,
     apartment_id |-> IF Has(kwargs, "apartment_id") THEN kwargs.apartment_id
                      ELSE contract.apartment_id,
     start_date |-> IF Has(kwargs, "start_date") THEN kwargs.start_date
                    ELSE contract.start_date,
     end_date |-> IF Has(kwargs, "end_date") THEN kwargs.end_date ELSE contract.end_date,
     adjustment_months |-> IF Has(kwargs, "adjustment_months") THEN kwargs.adjustment_months
                           ELSE contract.adjustment_months]

(***************************************************************************)
(* Contract service.                                                       *)
(***************************************************************************)
\* the comparison without the guard, a missing end date counting as the earliest date
EndDatePrecedesStartUnguarded(end_month, end_year, start_date) ==
    (IF end_month # Null /\ end_year # Null THEN GetLastDayOfMonth(end_year, end_month)
     ELSE Null) < start_date

\* create_contract and update_contract: "if end_date < start_date", guarded by
\* "end_month is not None and end_year is not None"
EndDatePrecedesStart(end_month, end_year, start_date) ==
    /\ end_month # Null
    /\ end_year # Null
    /\ GetLastDayOfMonth(end_year, end_month) < start_date

\* create_contract(db, user_id, apartment_id, start_month, start_year, end_month,
\* end_year, adjustment_months): a is the record of the arguments
CreateContractOutcome(a) ==
    LET start_date == Date(a.start_year, a.start_month, 1)
        end_date == IF a.end_month # Null /\ a.end_year # Null
                    THEN GetLastDayOfMonth(a.end_year, a.end_month) ELSE Null
        row == ContractRepoCreate(a.user_id, a.apartment_id, start_date, end_date,
                                  a.adjustment_months)
    IN  IF EndDatePrecedesStart(a.end_month, a.end_year, start_date)
            THEN Fail(DomainValidation)
        ELSE IF get_user_by_id(a.user_id) = Null THEN Fail(NotFound)
        ELSE IF RoleName(users[a.user_id].role_id) # "tenant" THEN Fail(DomainValidation)
        ELSE IF get_apartment_by_id(a.apartment_id) = Null THEN Fail(NotFound)
        ELSE IF get_contract_by_start_date_and_apartment(start_date, a.apartment_id) # Null
            THEN Fail(DuplicateResource)
        ELSE IF ~ContractsTableAccepts(next_contract_id, row) THEN Fail(IntegrityError)
        ELSE Done(row)

CreateContract(a) ==
    /\ next_contract_id <= MaxContracts
    /\ LET out == CreateContractOutcome(a)
       IN  /\ contracts' = IF out.result = OK
                           THEN Put(contracts, next_contract_id, out.row) ELSE contracts
           /\ next_contract_id' = IF out.result = OK
                                  THEN next_contract_id + 1 ELSE next_contract_id
           /\ last' = [op |-> "create_contract",
                       id |-> IF out.result = OK THEN next_contract_id ELSE Null,
                       result |-> out.result]
    /\ UNCHANGED <<users, apartments, charges, next_charge_id, pending>>

\* update_contract, lines 116-121: one of start_month/start_year without the other
StartPairIncomplete(start_month, start_year) ==
    /\ start_month # Null \/ start_year # Null
    /\ start_month = Null \/ start_year = Null

\* update_contract, lines 134-139: one of end_month/end_year is None and the other not
EndPairIncomplete(p) ==
    /\ Has(p, "end_month") \/ Has(p, "end_year")
    /\ (Get(p, "end_month") = Null) # (Get(p, "end_year") = Null)

\* the dict built with "if adjustment_months is not None": a null is dropped
ContractUpdateDictNotNone(p, new_start_date, new_end_date) ==
    [user_id |-> IF Has(p, "user_id") THEN Get(p, "user_id") ELSE Absent,
     apartment_id |-> IF Has(p, "apartment_id") THEN Get(p, "apartment_id") ELSE Absent,
     start_date |-> IF new_start_date # Null THEN new_start_date ELSE Absent,
     end_date |-> IF Has(p, "end_month") \/ Has(p, "end_year") THEN new_end_date ELSE Absent,
     adjustment_months |-> IF Get(p, "adjustment_months") # Null
                           THEN Get(p, "adjustment_months") ELSE Absent]

\* update_contract, lines 185-195: the dict handed to the repository
ContractUpdateDict(p, new_start_date, new_end_date) ==
    [user_id |-> IF Has(p, "user_id") THEN Get(p, "user_id") ELSE Absent,
     apartment_id |-> IF Has(p, "apartment_id") THEN Get(p, "apartment_id") ELSE Absent,
     start_date |-> IF new_start_date # Null THEN new_start_date ELSE Absent,
     end_date |-> IF Has(p, "end_month") \/ Has(p, "end_year") THEN new_end_date ELSE Absent,
     adjustment_months |-> IF Has(p, "adjustment_months") THEN Get(p, "adjustment_months")
                           ELSE Absent]

\* update_contract(db, contract_id, **update_fields): p is update_fields
UpdateContractOutcome(contract_id, p) ==
    LET existing_contract == contracts[contract_id]
        user_id == Get(p, "user_id")
        apartment_id == Get(p, "apartment_id")
        start_month == Get(p, "start_month")
        start_year == Get(p, "start_year")
        end_month == Get(p, "end_month")
        end_year == Get(p, "end_year")
        new_start_date == IF start_month # Null /\ start_year # Null
                          THEN Date(start_year, start_month, 1) ELSE Null
        final_start_date == IF new_start_date # Null THEN new_start_date
                            ELSE existing_contract.start_date
        end_given == Has(p, "end_month") \/ Has(p, "end_year")
        new_end_date == IF end_given /\ end_month # Null /\ end_year # Null
                        THEN GetLastDayOfMonth(end_year, end_month) ELSE Null
        final_apartment_id == IF apartment_id # Null THEN apartment_id
                              ELSE existing_contract.apartment_id
        duplicate_contract ==
            get_contract_by_start_date_and_apartment(final_start_date, final_apartment_id)
        row == ContractRepoUpdate(existing_contract,
                                  ContractUpdateDict(p, new_start_date, new_end_date))
    IN  IF get_contract_by_id(contract_id) = Null THEN Fail(NotFound)
        ELSE IF StartPairIncomplete(start_month, start_year) THEN Fail(DomainValidation)
        ELSE IF EndPairIncomplete(p) THEN Fail(DomainValidation)
        ELSE IF end_given /\ EndDatePrecedesStart(end_month, end_year, final_start_date)
            THEN Fail(DomainValidation)
        ELSE IF user_id # Null /\ get_user_by_id(user_id) = Null THEN Fail(NotFound)
        ELSE IF user_id # Null /\ RoleName(users[user_id].role_id) # "tenant"
            THEN Fail(DomainValidation)
        ELSE IF apartment_id # Null /\ get_apartment_by_id(apartment_id) = Null
            THEN Fail(NotFound)
        ELSE IF /\ new_start_date # Null \/ apartment_id # Null
                /\ duplicate_contract # Null
                /\ duplicate_contract # contract_id
            THEN Fail(DuplicateResource)
        ELSE IF ~ContractsTableAccepts(contract_id, row) THEN Fail(IntegrityError)
        ELSE Done(row)

UpdateContract(contract_id, p) ==
    /\ LET out == UpdateContractOutcome(contract_id, p)
       IN  /\ contracts' = IF out.result = OK
                           THEN Put(contracts, contract_id, out.row) ELSE contracts
           /\ last' = [op |-> "update_contract", id |-> contract_id, result |-> out.result]
    /\ UNCHANGED <<users, apartments, charges, next_contract_id, next_charge_id, pending>>

(***************************************************************************)
(* Charge repository and service.                                          *)
(***************************************************************************)
\* Boolean column values (is_visible), kept apart from None
TrueVal == 1
FalseVal == 2

\* charge_repo.get_charge_by_id
get_charge_by_id(charge_id) == IF charge_id \in DOMAIN charges THEN charge_id ELSE Null

\* the lookup with the contract filter left out
get_charge_by_period_only(contract_id, period) ==
    LET hits == {c \in DOMAIN charges : charges[c].period = period}
    IN IF hits = {} THEN Null ELSE CHOOSE c \in hits : \A d \in hits : c <= d

\* charge_repo.get_charge_by_contract_and_period: the id of a row with that
\* contract and period (.first()), or None
get_charge_by_contract_and_period(contract_id, period) ==
    LET hits == {c \in DOMAIN charges :
                    /\ charges[c].contract_id = contract_id
                    /\ charges[c].period = period}
    IN IF hits = {} THEN Null ELSE CHOOSE c \in hits : \A d \in hits : c <= d

\* charge_repo.get_charges_by_contract_id
get_charges_by_contract_id(contract_id) ==
    {c \in DOMAIN charges : charges[c].contract_id = contract_id}

\* the charges table with contract_id nullable
ChargesTableAcceptsNullContract(id, row) ==
    /\ row.contract_id = Null \/ row.contract_id \in DOMAIN contracts
    /\ row.period # Null /\ DateDay(row.period) = 1
    /\ row.rent # Null /\ row.rent >= 0
    /\ row.is_visible # Null
    /\ \A c \in DOMAIN charges \ {id} :
          ~(charges[c].contract_id = row.contract_id /\ charges[c].period = row.period)

\* the constraints of the charges table (migration 005, model Charge): NOT NULL
\* columns, the foreign key, the unique (contract_id, period) pair, period on
\* the first of the month, amounts >= 0.  rent stands for the five amount
\* columns, which the services treat alike.
ChargesTableAccepts(id, row) ==
    /\ row.contract_id # Null /\ row.contract_id \in DOMAIN contracts
    /\ row.period # Null /\ DateDay(row.period) = 1
    /\ row.rent # Null /\ row.rent >= 0
    /\ row.is_visible # Null
    /\ \A c \in DOMAIN charges \ {id} :
          ~(charges[c].contract_id = row.contract_id /\ charges[c].period = row.period)

\* charge_repo.create_charge: the row that is added
ChargeRepoCreate(contract_id, period, rent, is_visible, payment_date) ==
    [contract_id |-> contract_id, period |-> period, rent |-> rent,
     is_visible |-> is_visible, payment_date |-> payment_date]

\* charge_repo.update_charge: only the keys of kwargs are assigned
ChargeRepoUpdate(charge, kwargs) ==
    [contract_id |-> IF Has(kwargs, "contract_id") THEN kwargs.contract_id
                     ELSE charge.contract_id,
     period |-> IF Has(kwargs, "period") THEN kwargs.period ELSE charge.period,
     rent |-> IF Has(kwargs, "rent") THEN kwargs.rent ELSE charge.rent,
     is_visible |-> IF Has(kwargs, "is_visible") THEN kwargs.is_visible
                    ELSE charge.is_visible,
     payment_date |-> IF Has(kwargs, "payment_date") THEN kwargs.payment_date
                      ELSE charge.payment_date]

\* the range check with "<=" for "<" on the start date
PeriodOutsideContractRangeStrictStart(period, contract) ==
    \/ period <= contract.start_date
    \/ contract.end_date # Null /\ period > contract.end_date

\* _validate_charge_period_in_contract_range: TRUE when it raises
PeriodOutsideContractRange(period, contract) ==
    \/ period < contract.start_date
    \/ contract.end_date # Null /\ period > contract.end_date

\* create_charge(db, contract_id, month, year, rent, ..., is_visible, payment_date)
CreateChargeOutcome(a) ==
    LET period == Date(a.year, a.month, 1)
        row == ChargeRepoCreate(a.contract_id, period, a.rent, a.is_visible, a.payment_date)
    IN  IF get_contract_by_id(a.contract_id) = Null THEN Fail(NotFound)
        ELSE IF PeriodOutsideContractRange(period, contracts[a.contract_id])
            THEN Fail(DomainValidation)
        ELSE IF get_charge_by_contract_and_period(a.contract_id, period) # Null
            THEN Fail(DuplicateResource)
        ELSE IF ~ChargesTableAccepts(next_charge_id, row) THEN Fail(IntegrityError)
        ELSE Done(row)

CreateCharge(a) ==
    /\ next_charge_id <= MaxCharges
    /\ LET out == CreateChargeOutcome(a)
       IN  /\ charges' = IF out.result = OK
                         THEN Put(charges, next_charge_id, out.row) ELSE charges
           /\ next_charge_id' = IF out.result = OK THEN next_charge_id + 1 ELSE next_charge_id
           /\ last' = [op |-> "create_charge",
                       id |-> IF out.result = OK THEN next_charge_id ELSE Null,
                       result |-> out.result]
    /\ UNCHANGED <<users, apartments, contracts, next_contract_id, pending>>

\* update_charge, lines 241-261: the dict handed to the repository
ChargeUpdateDict(p, new_period) ==
    [contract_id |-> IF Has(p, "contract_id") THEN Get(p, "contract_id") ELSE Absent,
     period |-> IF new_period # Null THEN new_period ELSE Absent,
     rent |-> p.rent,
     is_visible |-> p.is_visible,
     payment_date |-> p.payment_date]

\* update_charge, lines 215-217: the contract the charge will belong to
FinalContractId(existing_charge, contract_id) ==
    IF contract_id # Null THEN contract_id ELSE existing_charge.contract_id

\* the stored period taken whatever the patch says
FinalPeriodStored(existing_charge, new_period) == existing_charge.period

\* update_charge, line 218: the period the charge will have
FinalPeriod(existing_charge, new_period) ==
    IF new_period # Null THEN new_period ELSE existing_charge.period

\* update_charge(db, charge_id, **update_fields): p is update_fields
UpdateChargeOutcome(charge_id, p) ==
    LET existing_charge == charges[charge_id]
        contract_id == Get(p, "contract_id")
        month == Get(p, "month")
        year == Get(p, "year")
        new_period == IF month # Null /\ year # Null THEN Date(year, month, 1) ELSE Null
        final_contract_id == FinalContractId(existing_charge, contract_id)
        final_period == FinalPeriod(existing_charge, new_period)
        duplicate_charge == get_charge_by_contract_and_period(final_contract_id, final_period)
        row == ChargeRepoUpdate(existing_charge, ChargeUpdateDict(p, new_period))
    IN  IF get_charge_by_id(charge_id) = Null THEN Fail(NotFound)
        ELSE IF (month # Null \/ year # Null) /\ (month = Null \/ year = Null)
            THEN Fail(DomainValidation)
        ELSE IF get_contract_by_id(final_contract_id) = Null THEN Fail(NotFound)
        ELSE IF /\ new_period # Null \/ contract_id # Null
                /\ PeriodOutsideContractRange(final_period, contracts[final_contract_id])
            THEN Fail(DomainValidation)
        ELSE IF /\ new_period # Null \/ contract_id # Null
                /\ duplicate_charge # Null
                /\ duplicate_charge # charge_id
            THEN Fail(DuplicateResource)
        ELSE IF ~ChargesTableAccepts(charge_id, row) THEN Fail(IntegrityError)
        ELSE Done(row)

UpdateCharge(charge_id, p) ==
    /\ LET out == UpdateChargeOutcome(charge_id, p)
       IN  /\ charges' = IF out.result = OK THEN Put(charges, charge_id, out.row) ELSE charges
           /\ last' = [op |-> "update_charge", id |-> charge_id, result |-> out.result]
    /\ UNCHANGED <<users, apartments, contracts, next_contract_id, next_charge_id, pending>>

\* the delete without the test on the payment date
DeleteChargeOutcomeUnchecked(charge_id) ==
    IF get_charge_by_id(charge_id) = Null THEN Fail(NotFound)
    ELSE Done(Null)

\* the test on the payment date inverted ("if charge.payment_date is None")
DeleteChargeOutcomeInverted(charge_id) ==
    IF get_charge_by_id(charge_id) = Null THEN Fail(NotFound)
    ELSE IF charges[charge_id].payment_date = Null THEN Fail(DomainValidation)
    ELSE Done(Null)

\* delete_charge(db, charge_id)
DeleteChargeOutcome(charge_id) ==
    IF get_charge_by_id(charge_id) = Null THEN Fail(NotFound)
    ELSE IF charges[charge_id].payment_date # Null THEN Fail(DomainValidation)
    ELSE Done(Null)

DeleteCharge(charge_id) ==
    /\ LET out == DeleteChargeOutcome(charge_id)
       IN  /\ charges' = IF out.result = OK THEN Drop(charges, charge_id) ELSE charges
           /\ last' = [op |-> "delete_charge", id |-> charge_id, result |-> out.result]
    /\ UNCHANGED <<users, apartments, contracts, next_contract_id, next_charge_id, pending>>

\* Session.delete(contract): the charges of Contract.charges (the backref of
\* Charge.contract, no delete cascade) get contract_id = None at the flush
NullifiedCharges(contract_id) ==
    [c \in DOMAIN charges |->
        IF charges[c].contract_id = contract_id
        THEN [charges[c] EXCEPT !.contract_id = Null] ELSE charges[c]]

\* contract_repo.delete_contract(db, contract_id): the commit is refused when a
\* nullified charge breaks a constraint of the charges table
DeleteContractOutcome(contract_id) ==
    IF get_contract_by_id(contract_id) = Null THEN Fail(NotFound)
    ELSE IF \E c \in get_charges_by_contract_id(contract_id) :
                ~ChargesTableAccepts(c, NullifiedCharges(contract_id)[c])
        THEN Fail(IntegrityError)
    ELSE Done(Null)

DeleteContract(contract_id) ==
    /\ LET out == DeleteContractOutcome(contract_id)
       IN  /\ contracts' = IF out.result = OK THEN Drop(contracts, contract_id)
                           ELSE contracts
           /\ charges' = IF out.result = OK THEN NullifiedCharges(contract_id) ELSE charges
           /\ last' = [op |-> "delete_contract", id |-> contract_id, result |-> out.result]
    /\ UNCHANGED <<users, apartments, next_contract_id, next_charge_id, pending>>

(***************************************************************************)
(* Reading charges.  A query is a function of the tables; table is the     *)
(* charges table it runs on.                                               *)
(***************************************************************************)
\* raised for a caller who may not see the subject (ForbiddenError, HTTP 403)
Forbidden == "Forbidden"

\* the filters shared by both charge queries: year and month (applied only when
\* both are given), unpaid (True: payment_date IS NULL, False: IS NOT NULL)
ChargeFiltersMatch(charge, year, month, unpaid) ==
    /\ (year # Null /\ month # Null)
          => (DateYear(charge.period) = year /\ DateMonth(charge.period) = month)
    /\ (unpaid # Null)
          => (IF unpaid = TrueVal THEN charge.payment_date = Null
              ELSE charge.payment_date # Null)

\* charge_repo.get_all_charges: the apartment filter joins the contract
get_all_charges(table, year, month, unpaid, apartment_id) ==
    {c \in DOMAIN table :
        /\ (apartment_id # Null)
              => /\ table[c].contract_id \in DOMAIN contracts
                 /\ contracts[table[c].contract_id].apartment_id = apartment_id
        /\ ChargeFiltersMatch(table[c], year, month, unpaid)}

\* the query that filters on the contract's tenant alone
get_charges_by_user_id(table, user_id, year, month, unpaid, apartment_id) ==
    {c \in DOMAIN table :
        /\ table[c].contract_id \in DOMAIN contracts
        /\ contracts[table[c].contract_id].user_id = user_id
        /\ (apartment_id # Null)
              => (contracts[table[c].contract_id].apartment_id = apartment_id)
        /\ ChargeFiltersMatch(table[c], year, month, unpaid)}

\* charge_repo.get_visible_charges_by_user_id: charges joined with their
\* contract, filtered on the contract's tenant and on is_visible
get_visible_charges_by_user_id(table, user_id, year, month, unpaid, apartment_id) ==
    {c \in DOMAIN table :
        /\ table[c].contract_id \in DOMAIN contracts
        /\ contracts[table[c].contract_id].user_id = user_id
        /\ table[c].is_visible = TrueVal
        /\ (apartment_id # Null)
              => (contracts[table[c].contract_id].apartment_id = apartment_id)
        /\ ChargeFiltersMatch(table[c], year, month, unpaid)}

\* list_charges_for_user(db, current_user, year, month, unpaid, apartment_id)
list_charges_for_user(table, current_user, year, month, unpaid, apartment_id) ==
    IF RoleName(users[current_user].role_id) \in {"admin", "accountant"}
    THEN get_all_charges(table, year, month, unpaid, apartment_id)
    ELSE get_visible_charges_by_user_id(table, current_user, year, month, unpaid,
                                        apartment_id)

\* get_charge_for_user(db, charge_id, current_user)
get_charge_for_user(table, charge_id, current_user) ==
    IF charge_id \notin DOMAIN table THEN Fail(NotFound)
    ELSE IF /\ RoleName(users[current_user].role_id) = "tenant"
            /\ \/ table[charge_id].is_visible # TrueVal
               \/ contracts[table[charge_id].contract_id].user_id # current_user
        THEN Fail(Forbidden)
    ELSE Done(table[charge_id])

(***************************************************************************)
(* Reading contracts and apartments.  as_of is date.today() of the request. *)
(***************************************************************************)
\* ContractActivityPolicy.is_active and sqlalchemy_active_predicate
is_active(as_of, start_date, end_date) ==
    start_date <= as_of /\ (end_date = Null \/ end_date >= as_of)

\* the inactive rule with "<=" for "<" on the end date
is_inactive_end_inclusive(as_of, start_date, end_date) ==
    start_date > as_of \/ (end_date # Null /\ end_date <= as_of)

\* ContractActivityPolicy.is_inactive and sqlalchemy_inactive_predicate
is_inactive(as_of, start_date, end_date) ==
    start_date > as_of \/ (end_date # Null /\ end_date < as_of)

\* contract_repo.get_all_contracts_paginated, lines 125-150: the contracts the
\* query selects, before they are ordered and cut into pages
FilteredContracts(user_id, apartment_id, active, as_of) ==
    {c \in DOMAIN contracts :
        /\ (user_id # Null) => (contracts[c].user_id = user_id)
        /\ (apartment_id # Null) => (contracts[c].apartment_id = apartment_id)
        /\ IF active = TrueVal
           THEN is_active(as_of, contracts[c].start_date, contracts[c].end_date)
           ELSE is_inactive(as_of, contracts[c].start_date, contracts[c].end_date)}

\* Query(default): the value of a query parameter, its default when left out
QueryValue(v, default) == IF v = Absent THEN default ELSE v

\* the list handler with the tenant's filter taken from the request
get_all_contracts_unscoped(current_user, q, as_of) ==
    LET user == QueryValue(q.user, Null)
        apartment == QueryValue(q.apartment, Null)
        active == QueryValue(q.active, TrueVal)
        role == RoleName(users[current_user].role_id)
    IN  IF role = "accountant" THEN Fail(Forbidden)
        ELSE IF role = "tenant" /\ (apartment # Null \/ active # TrueVal)
            THEN Fail(Forbidden)
        ELSE Done(FilteredContracts(user, apartment, active, as_of))

\* GET /contracts (routers/contracts.py get_all_contracts): q holds the query
\* parameters user, apartment and active; the row returned is the set of
\* contracts of all pages
get_all_contracts(current_user, q, as_of) ==
    LET user == QueryValue(q.user, Null)
        apartment == QueryValue(q.apartment, Null)
        active == QueryValue(q.active, TrueVal)
        role == RoleName(users[current_user].role_id)
    IN  IF role = "accountant" THEN Fail(Forbidden)
        ELSE IF role = "tenant" /\ (user # Null \/ apartment # Null \/ active # TrueVal)
            THEN Fail(Forbidden)
        ELSE IF role = "tenant"
            THEN Done(FilteredContracts(current_user, Null, TrueVal, as_of))
        ELSE IF role = "admin"
            THEN Done(FilteredContracts(user, apartment, active, as_of))
        ELSE Fail(Forbidden)

\* the fetch without the ownership test
get_contract_by_id_unscoped(current_user, contract_id) ==
    IF get_contract_by_id(contract_id) = Null THEN Fail(NotFound)
    ELSE Done(contracts[contract_id])

\* GET /contracts/{contract_id} (routers/contracts.py get_contract_by_id)
get_contract_by_id_route(current_user, contract_id) ==
    IF get_contract_by_id(contract_id) = Null THEN Fail(NotFound)
    ELSE IF /\ RoleName(users[current_user].role_id) = "tenant"
            /\ contracts[contract_id].user_id # current_user
        THEN Fail(Forbidden)
    ELSE Done(contracts[contract_id])

\* apartment_repo.get_all_apartments
get_all_apartments_repo == DOMAIN apartments

\* apartment_repo.get_apartments_with_open_contracts_by_user_id
get_apartments_with_open_contracts_by_user_id(user_id, today) ==
    {a \in DOMAIN apartments :
        \E c \in DOMAIN contracts :
            /\ contracts[c].apartment_id = a
            /\ contracts[c].user_id = user_id
            /\ contracts[c].start_date <= today
            /\ (contracts[c].end_date = Null \/ contracts[c].end_date >= today)}

\* services/apartment.py list_apartments_for_user
list_apartments_for_user(current_user, today) ==
    IF RoleName(users[current_user].role_id) \in {"admin", "accountant"}
    THEN get_all_apartments_repo
    ELSE get_apartments_with_open_contracts_by_user_id(current_user, today)

\* deps.require_roles(*role_names): TRUE when the caller is let through
require_roles(current_user, role_names) ==
    RoleName(users[current_user].role_id) \in role_names

\* GET /apartments (routers/apartments.py get_all_apartments)
get_all_apartments(current_user, today) ==
    IF ~require_roles(current_user, {"admin", "accountant"}) THEN Fail(Forbidden)
    ELSE Done(get_all_apartments_repo)

(***************************************************************************)
(* User service.  Only role_id is modelled of a user's columns.            *)
(***************************************************************************)
\* update_user without the test "current_user.id == user_id" on a role change
UpdateUserOutcomeNoSelfCheck(current_user, user_id, role_id) ==
    LET caller_role == RoleName(users[current_user].role_id)
    IN  IF get_user_by_id(user_id) = Null THEN Fail(NotFound)
        ELSE IF caller_role \in {"tenant", "accountant"} /\ current_user # user_id
            THEN Fail(DomainValidation)
        ELSE IF caller_role \in {"tenant", "accountant"} /\ role_id # Null
            THEN Fail(DomainValidation)
        ELSE IF role_id # Null /\ role_id \notin {ROLE_ADMIN, ROLE_TENANT, ROLE_ACCOUNTANT}
            THEN Fail(NotFound)
        ELSE Done([role_id |-> IF role_id # Null THEN role_id ELSE users[user_id].role_id])

\* update_user(db, user_id, user_data, current_user), role_id being user_data.role_id
UpdateUserOutcome(current_user, user_id, role_id) ==
    LET caller_role == RoleName(users[current_user].role_id)
    IN  IF get_user_by_id(user_id) = Null THEN Fail(NotFound)
        ELSE IF caller_role \in {"tenant", "accountant"} /\ current_user # user_id
            THEN Fail(DomainValidation)
        ELSE IF caller_role \in {"tenant", "accountant"} /\ role_id # Null
            THEN Fail(DomainValidation)
        ELSE IF current_user = user_id /\ role_id # Null THEN Fail(DomainValidation)
        ELSE IF role_id # Null /\ role_id \notin {ROLE_ADMIN, ROLE_TENANT, ROLE_ACCOUNTANT}
            THEN Fail(NotFound)
        ELSE Done([role_id |-> IF role_id # Null THEN role_id ELSE users[user_id].role_id])

UpdateUser(current_user, user_id, role_id) ==
    /\ current_user \in DOMAIN users
    /\ LET out == UpdateUserOutcome(current_user, user_id, role_id)
       IN  /\ users' = IF out.result = OK THEN Put(users, user_id, out.row) ELSE users
           /\ last' = [op |-> "update_user", id |-> user_id, result |-> out.result]
    /\ UNCHANGED <<apartments, contracts, charges, next_contract_id, next_charge_id, pending>>

\* contract_repo.get_contracts_by_user_id
get_contracts_by_user_id(user_id) ==
    {c \in DOMAIN contracts : contracts[c].user_id = user_id}

\* contract_repo.get_contracts_by_apartment_id
get_contracts_by_apartment_id(apartment_id) ==
    {c \in DOMAIN contracts : contracts[c].apartment_id = apartment_id}

\* delete_user without the test on the user's contracts
DeleteUserOutcomeUnchecked(user_id) ==
    IF get_user_by_id(user_id) = Null THEN Fail(NotFound)
    ELSE IF RoleName(users[user_id].role_id) = "admin" THEN Fail(DomainValidation)
    ELSE Done(Null)

\* delete_user(db, user_id)
DeleteUserOutcome(user_id) ==
    IF get_user_by_id(user_id) = Null THEN Fail(NotFound)
    ELSE IF RoleName(users[user_id].role_id) = "admin" THEN Fail(DomainValidation)
    ELSE IF get_contracts_by_user_id(user_id) # {} THEN Fail(DomainValidation)
    ELSE Done(Null)

\* user_repo.delete_user removes the row (called by the service; its definition
\* is not part of the repository module)
DeleteUser(user_id) ==
    /\ LET out == DeleteUserOutcome(user_id)
       IN  /\ users' = IF out.result = OK THEN Drop(users, user_id) ELSE users
           /\ last' = [op |-> "delete_user", id |-> user_id, result |-> out.result]
    /\ UNCHANGED <<apartments, contracts, charges, next_contract_id, next_charge_id, pending>>

\* users.id: the id given to a new row
NextUserId ==
    IF DOMAIN users = {} THEN 1
    ELSE 1 + CHOOSE u \in DOMAIN users : \A v \in DOMAIN users : v <= u

\* create_user(db, user_data): role_id is user_data.role_id; email_registered and
\* password_valid stand for the outcome of the checks on columns that are not
\* modelled
CreateUserOutcome(role_id, email_registered, password_valid) ==
    IF email_registered THEN Fail(DuplicateResource)
    ELSE IF ~password_valid THEN Fail(DomainValidation)
    ELSE IF role_id = Null THEN Done([role_id |-> ROLE_TENANT])
    ELSE IF role_id \notin {ROLE_ADMIN, ROLE_TENANT, ROLE_ACCOUNTANT} THEN Fail(NotFound)
    ELSE Done([role_id |-> role_id])

\* POST /users (routers/users.py create_new_user): admins only
CreateUser(current_user, role_id, email_registered, password_valid) ==
    /\ current_user \in DOMAIN users
    /\ Cardinality(DOMAIN users) < MaxUsers
    /\ LET out == IF require_roles(current_user, {"admin"})
                  THEN CreateUserOutcome(role_id, email_registered, password_valid)
                  ELSE Fail(Forbidden)
       IN  /\ users' = IF out.result = OK THEN Put(users, NextUserId, out.row) ELSE users
           /\ last' = [op |-> "create_user",
                       id |-> IF out.result = OK THEN NextUserId ELSE Null,
                       result |-> out.result]
    /\ UNCHANGED <<apartments, contracts, charges, next_contract_id, next_charge_id, pending>>

\* DELETE /users/{user_id} (routers/users.py delete_user_by_id): admins only
DeleteUserById(current_user, user_id) ==
    /\ current_user \in DOMAIN users
    /\ IF require_roles(current_user, {"admin"}) THEN DeleteUser(user_id)
       ELSE /\ last' = [op |-> "delete_user", id |-> user_id, result |-> Forbidden]
            /\ UNCHANGED <<users, apartments, contracts, charges, next_contract_id,
                           next_charge_id, pending>>

\* delete_apartment(db, apartment_id)
DeleteApartmentOutcome(apartment_id) ==
    IF get_apartment_by_id(apartment_id) = Null THEN Fail(NotFound)
    ELSE IF get_contracts_by_apartment_id(apartment_id) # {} THEN Fail(DomainValidation)
    ELSE Done(Null)

\* apartment_repo.delete_apartment removes the row (called by the service; its
\* definition is not part of the repository module)
DeleteApartment(apartment_id) ==
    /\ LET out == DeleteApartmentOutcome(apartment_id)
       IN  /\ apartments' = IF out.result = OK THEN Drop(apartments, apartment_id)
                            ELSE apartments
           /\ last' = [op |-> "delete_apartment", id |-> apartment_id,
                       result |-> out.result]
    /\ UNCHANGED <<users, contracts, charges, next_contract_id, next_charge_id, pending>>

(***************************************************************************)
(* Apartment repository and service.  floor and letter are modelled of an  *)
(* apartment's columns.                                                    *)
(***************************************************************************)
\* letter=None: the letter is not given
NoLetter == "None"

\* the lookup without exclude_id: the apartment's own row counts
get_apartment_by_floor_letter_any(floor, letter, exclude_id) ==
    LET hits == {a \in DOMAIN apartments :
                    apartments[a].floor = floor /\ apartments[a].letter = letter}
    IN IF hits = {} THEN Null ELSE CHOOSE a \in hits : \A b \in hits : a <= b

\* apartment_repo.get_apartment_by_floor_letter(db, floor, letter, exclude_id)
get_apartment_by_floor_letter(floor, letter, exclude_id) ==
    LET hits == {a \in DOMAIN apartments :
                    /\ apartments[a].floor = floor /\ apartments[a].letter = letter
                    /\ exclude_id # Null => a # exclude_id}
    IN IF hits = {} THEN Null ELSE CHOOSE a \in hits : \A b \in hits : a <= b

\* the constraints of the apartments table (migrations 003, 006, 007): NOT NULL
\* columns, the unique (floor, letter) pair, a letter of one character
ApartmentsTableAccepts(id, row) ==
    /\ row.floor # Null
    /\ row.letter # NoLetter /\ row.letter # ""
    /\ \A a \in DOMAIN apartments \ {id} :
          ~(apartments[a].floor = row.floor /\ apartments[a].letter = row.letter)

\* apartments.id: the id given to a new row
NextApartmentId ==
    IF DOMAIN apartments = {} THEN 1
    ELSE 1 + CHOOSE a \in DOMAIN apartments : \A b \in DOMAIN apartments : b <= a

\* services/apartment.py create_apartment, then apartment_repo.create_apartment,
\* which repeats the lookup
CreateApartmentOutcome(floor, letter) ==
    LET row == [floor |-> floor, letter |-> letter]
    IN  IF get_apartment_by_floor_letter(floor, letter, Null) # Null
            THEN Fail(DuplicateResource)
        ELSE IF ~ApartmentsTableAccepts(NextApartmentId, row) THEN Fail(IntegrityError)
        ELSE Done(row)

CreateApartment(floor, letter) ==
    /\ Cardinality(DOMAIN apartments) < MaxApartments
    /\ LET out == CreateApartmentOutcome(floor, letter)
       IN  /\ apartments' = IF out.result = OK
                            THEN Put(apartments, NextApartmentId, out.row) ELSE apartments
           /\ last' = [op |-> "create_apartment",
                       id |-> IF out.result = OK THEN NextApartmentId ELSE Null,
                       result |-> out.result]
    /\ UNCHANGED <<users, contracts, charges, next_contract_id, next_charge_id, pending>>

\* services/apartment.py update_apartment, then apartment_repo.update_apartment:
\* a floor or letter that is None is not assigned
UpdateApartmentOutcome(apartment_id, floor, letter) ==
    LET apartment == apartments[apartment_id]
        final_floor == IF floor # Null THEN floor ELSE apartment.floor
        final_letter == IF letter # NoLetter THEN letter ELSE apartment.letter
        row == [floor |-> final_floor, letter |-> final_letter]
    IN  IF get_apartment_by_id(apartment_id) = Null THEN Fail(NotFound)
        ELSE IF /\ floor # Null \/ letter # NoLetter
                /\ get_apartment_by_floor_letter(final_floor, final_letter, apartment_id)
                       # Null
            THEN Fail(DuplicateResource)
        ELSE IF ~ApartmentsTableAccepts(apartment_id, row) THEN Fail(IntegrityError)
        ELSE Done(row)

UpdateApartment(apartment_id, floor, letter) ==
    /\ LET out == UpdateApartmentOutcome(apartment_id, floor, letter)
       IN  /\ apartments' = IF out.result = OK
                            THEN Put(apartments, apartment_id, out.row) ELSE apartments
           /\ last' = [op |-> "update_apartment", id |-> apartment_id,
                       result |-> out.result]
    /\ UNCHANGED <<users, contracts, charges, next_contract_id, next_charge_id, pending>>

(***************************************************************************)
(* Requests served at the same time.  Each request has its own session:    *)
(* the service reads and validates, the repository then writes and         *)
(* commits.  No row is locked and no check is repeated between the two, so *)
(* other requests may commit in between; the constraints of the tables are *)
(* checked at the commit.                                                  *)
(***************************************************************************)
\* every check of the service passed: what is left is the repository's commit
Validated(out) == out.result \in {OK, IntegrityError}

\* the session of the request is closed
Close(s) == [pending EXCEPT ![s] = Idle]

\* create_contract up to the call of contract_repo.create_contract
ReadCreateContract(s, a) ==
    /\ pending[s] = Idle
    /\ next_contract_id
          + Cardinality({t \in Sessions : pending[t].op = "create_contract"}) <= MaxContracts
    /\ LET out == CreateContractOutcome(a)
           start_date == Date(a.start_year, a.start_month, 1)
           end_date == IF a.end_month # Null /\ a.end_year # Null
                       THEN GetLastDayOfMonth(a.end_year, a.end_month) ELSE Null
       IN  IF Validated(out)
           THEN /\ pending' = [pending EXCEPT ![s] =
                                  [op |-> "create_contract",
                                   row |-> ContractRepoCreate(a.user_id, a.apartment_id,
                                               start_date, end_date, a.adjustment_months)]]
                /\ UNCHANGED last
           ELSE /\ last' = [op |-> "create_contract", id |-> Null, result |-> out.result]
                /\ UNCHANGED pending
    /\ UNCHANGED <<users, apartments, contracts, charges, next_contract_id, next_charge_id>>

\* contract_repo.create_contract: db.add and db.commit
WriteCreateContract(s) ==
    /\ pending[s].op = "create_contract"
    /\ LET ok == ContractsTableAccepts(next_contract_id, pending[s].row)
       IN  /\ contracts' = IF ok THEN Put(contracts, next_contract_id, pending[s].row)
                           ELSE contracts
           /\ next_contract_id' = IF ok THEN next_contract_id + 1 ELSE next_contract_id
           /\ last' = [op |-> "create_contract",
                       id |-> IF ok THEN next_contract_id ELSE Null,
                       result |-> IF ok THEN OK ELSE IntegrityError]
    /\ pending' = Close(s)
    /\ UNCHANGED <<users, apartments, charges, next_charge_id>>

\* update_contract, lines 185-195, for the patch p
UpdateContractKwargs(p) ==
    LET start_month == Get(p, "start_month")
        start_year == Get(p, "start_year")
        end_month == Get(p, "end_month")
        end_year == Get(p, "end_year")
        new_start_date == IF start_month # Null /\ start_year # Null
                          THEN Date(start_year, start_month, 1) ELSE Null
        new_end_date == IF /\ Has(p, "end_month") \/ Has(p, "end_year")
                           /\ end_month # Null /\ end_year # Null
                        THEN GetLastDayOfMonth(end_year, end_month) ELSE Null
    IN  ContractUpdateDict(p, new_start_date, new_end_date)

\* update_contract up to the call of contract_repo.update_contract
ReadUpdateContract(s, contract_id, p) ==
    /\ pending[s] = Idle
    /\ LET out == UpdateContractOutcome(contract_id, p)
       IN  IF Validated(out)
           THEN /\ pending' = [pending EXCEPT ![s] =
                                  [op |-> "update_contract", id |-> contract_id,
                                   kwargs |-> UpdateContractKwargs(p)]]
                /\ UNCHANGED last
           ELSE /\ last' = [op |-> "update_contract", id |-> contract_id,
                            result |-> out.result]
                /\ UNCHANGED pending
    /\ UNCHANGED <<users, apartments, contracts, charges, next_contract_id, next_charge_id>>

\* contract_repo.update_contract: the assignments and db.commit (an UPDATE of the
\* assigned columns)
WriteUpdateContract(s) ==
    /\ pending[s].op = "update_contract"
    /\ LET id == pending[s].id
           row == ContractRepoUpdate(contracts[id], pending[s].kwargs)
           result == IF id \notin DOMAIN contracts THEN NotFound
                     ELSE IF ContractsTableAccepts(id, row) THEN OK
                     ELSE IntegrityError
       IN  /\ contracts' = IF result = OK THEN Put(contracts, id, row) ELSE contracts
           /\ last' = [op |-> "update_contract", id |-> id, result |-> result]
    /\ pending' = Close(s)
    /\ UNCHANGED <<users, apartments, charges, next_contract_id, next_charge_id>>

\* create_charge up to the call of charge_repo.create_charge
ReadCreateCharge(s, a) ==
    /\ pending[s] = Idle
    /\ next_charge_id
          + Cardinality({t \in Sessions : pending[t].op = "create_charge"}) <= MaxCharges
    /\ LET out == CreateChargeOutcome(a)
       IN  IF Validated(out)
           THEN /\ pending' = [pending EXCEPT ![s] =
                                  [op |-> "create_charge",
                                   row |-> ChargeRepoCreate(a.contract_id,
                                               Date(a.year, a.month, 1), a.rent,
                                               a.is_visible, a.payment_date)]]
                /\ UNCHANGED last
           ELSE /\ last' = [op |-> "create_charge", id |-> Null, result |-> out.result]
                /\ UNCHANGED pending
    /\ UNCHANGED <<users, apartments, contracts, charges, next_contract_id, next_charge_id>>

\* charge_repo.create_charge: db.add and db.commit
WriteCreateCharge(s) ==
    /\ pending[s].op = "create_charge"
    /\ LET ok == ChargesTableAccepts(next_charge_id, pending[s].row)
       IN  /\ charges' = IF ok THEN Put(charges, next_charge_id, pending[s].row)
                         ELSE charges
           /\ next_charge_id' = IF ok THEN next_charge_id + 1 ELSE next_charge_id
           /\ last' = [op |-> "create_charge",
                       id |-> IF ok THEN next_charge_id ELSE Null,
                       result |-> IF ok THEN OK ELSE IntegrityError]
    /\ pending' = Close(s)
    /\ UNCHANGED <<users, apartments, contracts, next_contract_id>>

\* update_charge, lines 241-261, for the patch p
UpdateChargeKwargs(p) ==
    LET month == Get(p, "month")
        year == Get(p, "year")
        new_period == IF month # Null /\ year # Null THEN Date(year, month, 1) ELSE Null
    IN  ChargeUpdateDict(p, new_period)

\* update_charge up to the call of charge_repo.update_charge
ReadUpdateCharge(s, charge_id, p) ==
    /\ pending[s] = Idle
    /\ LET out == UpdateChargeOutcome(charge_id, p)
       IN  IF Validated(out)
           THEN /\ pending' = [pending EXCEPT ![s] =
                                  [op |-> "update_charge", id |-> charge_id,
                                   kwargs |-> UpdateChargeKwargs(p)]]
                /\ UNCHANGED last
           ELSE /\ last' = [op |-> "update_charge", id |-> charge_id,
                            result |-> out.result]
                /\ UNCHANGED pending
    /\ UNCHANGED <<users, apartments, contracts, charges, next_contract_id, next_charge_id>>

\* charge_repo.update_charge: the assignments and db.commit
WriteUpdateCharge(s) ==
    /\ pending[s].op = "update_charge"
    /\ LET id == pending[s].id
           row == ChargeRepoUpdate(charges[id], pending[s].kwargs)
           result == IF id \notin DOMAIN charges THEN NotFound
                     ELSE IF ChargesTableAccepts(id, row) THEN OK
                     ELSE IntegrityError
       IN  /\ charges' = IF result = OK THEN Put(charges, id, row) ELSE charges
           /\ last' = [op |-> "update_charge", id |-> id, result |-> result]
    /\ pending' = Close(s)
    /\ UNCHANGED <<users, apartments, contracts, next_contract_id, next_charge_id>>

(***************************************************************************)
(* Pages of the contract list.                                             *)
(***************************************************************************)
\* the orders in which the database may return the rows: ORDER BY start_date DESC
\* fixes the order of rows with different start dates and leaves the order of rows
\* with the same start date to the database, which may choose another one for
\* each query
RowOrders(rows) ==
    {order \in [1 .. Cardinality(rows) -> rows] :
        /\ \A i, j \in DOMAIN order : (i # j) => (order[i] # order[j])
        /\ \A i, j \in DOMAIN order :
              (i < j) => (contracts[order[i]].start_date >= contracts[order[j]].start_date)}

\* .offset(skip).limit(page_size) on the rows in the order given
OffsetLimit(order, skip, page_size) ==
    [i \in 1 .. (IF Len(order) - skip > page_size THEN page_size
                 ELSE IF Len(order) > skip THEN Len(order) - skip ELSE 0)
        |-> order[skip + i]]

\* contract_repo.get_all_contracts_paginated: (contracts, total), order being the
\* order the database returns the selected rows in
get_all_contracts_paginated(page, page_size, user_id, apartment_id, active, as_of, order) ==
    LET total == Cardinality(FilteredContracts(user_id, apartment_id, active, as_of))
        skip == (page - 1) * page_size
    IN  [items |-> OffsetLimit(order, skip, page_size), total |-> total]

\* GET /contracts as the admin, one page: q holds page_size, the filters and
\* date.today().  last.result collects the pages received for one q while the
\* contracts stay as they are.
ListContractsPage(page, q) ==
    /\ \E order \in RowOrders(FilteredContracts(q.user, q.apartment, q.active, q.as_of)) :
          LET received == IF last.op = "get_all_contracts" /\ last.id = q
                          THEN last.result ELSE EmptyTable
              response == get_all_contracts_paginated(page, q.page_size, q.user,
                              q.apartment, q.active, q.as_of, order)
          IN  last' = [op |-> "get_all_contracts", id |-> q,
                       result |-> Put(received, page, response)]
    /\ UNCHANGED <<users, apartments, contracts, charges, next_contract_id, next_charge_id,
                   pending>>

(***************************************************************************)
(* Requests.                                                               *)
(***************************************************************************)
\* a (month, year) pair of a request body
Pair(i) == [m |-> MonthOf(i), y |-> YearOf(i)]
MonthPairs == {Pair(i) : i \in MonthIdx}
NoPair == [m |-> Absent, y |-> Absent]
NullPair == [m |-> Null, y |-> Null]
\* a month without its year
HalfPair == [m |-> MonthOf(0), y |-> Absent]

ContractArgs(U, A, S, E, ADJ) ==
    { [user_id |-> u, apartment_id |-> ap, start_month |-> s.m, start_year |-> s.y,
       end_month |-> e.m, end_year |-> e.y, adjustment_months |-> adj] :
      u \in U, ap \in A, s \in S, e \in E, adj \in ADJ }

ChargeArgs(C, P, V, PAY) ==
    { [contract_id |-> c, month |-> pr.m, year |-> pr.y, rent |-> 1000,
       is_visible |-> v, payment_date |-> pay] :
      c \in C, pr \in P, v \in V, pay \in PAY }

ChargePatches(C, P, R, V, PAY) ==
    { [contract_id |-> c, month |-> pr.m, year |-> pr.y, rent |-> r,
       is_visible |-> v, payment_date |-> pay] :
      c \in C, pr \in P, r \in R, v \in V, pay \in PAY }

ContractIds == 1 .. MaxContracts
ChargeIds == 1 .. MaxCharges

(***************************************************************************)
(* Spec: contracts and their charges.  One tenant, one apartment; requests *)
(* vary the windows, the periods and the contract a charge belongs to.     *)
(***************************************************************************)
CoreContractArgs == ContractArgs({2}, {1}, MonthPairs, {NullPair} \cup MonthPairs, {Null})

CoreContractPatches ==
    ContractArgs({Absent}, {Absent}, {NoPair, HalfPair} \cup MonthPairs,
                 {NoPair, NullPair, HalfPair} \cup MonthPairs, {Absent})
    \cup ContractArgs({Null}, {Absent}, {NoPair} \cup MonthPairs, {NoPair}, {Absent})

CoreChargeArgs == ChargeArgs(ContractIds, MonthPairs, {FalseVal}, {Null})

CoreChargePatches ==
    ChargePatches({Absent} \cup ContractIds, {NoPair, HalfPair} \cup MonthPairs,
                  {Absent}, {Absent}, {Absent})
    \cup ChargePatches({Null}, {NoPair} \cup MonthPairs, {Absent}, {Absent}, {Absent})

Next ==
    \/ \E a \in CoreContractArgs : CreateContract(a)
    \/ \E id \in ContractIds, p \in CoreContractPatches : UpdateContract(id, p)
    \/ \E a \in CoreChargeArgs : CreateCharge(a)
    \/ \E id \in ChargeIds, p \in CoreChargePatches : UpdateCharge(id, p)
    \/ \E id \in ChargeIds : DeleteCharge(id)

Spec == Init /\ [][Next]_vars

(***************************************************************************)
(* SpecContracts: contracts alone.  Two tenants and two apartments, a      *)
(* missing user and a missing apartment; requests vary the tenant, the     *)
(* apartment and the start date.                                           *)
(***************************************************************************)
KeyContractArgs ==
    ContractArgs({2, 3}, {1, 2, 3}, MonthPairs, {NullPair} \cup MonthPairs, {Null})
    \cup ContractArgs({1, 4}, {1}, MonthPairs, {NullPair}, {Null})

KeyContractPatches ==
    ContractArgs({Absent, 3}, {Absent, 1, 2}, {NoPair} \cup MonthPairs, {NoPair}, {Absent})
    \cup ContractArgs({Absent, 1, 4}, {Absent, 3}, {NoPair}, {NoPair}, {Absent})

NextContracts ==
    \/ \E a \in KeyContractArgs : CreateContract(a)
    \/ \E id \in ContractIds, p \in KeyContractPatches : UpdateContract(id, p)

SpecContracts == Init /\ [][NextContracts]_vars

(***************************************************************************)
(* SpecUsers: contracts and the roles of their tenants.                    *)
(***************************************************************************)
UserContractArgs == ContractArgs({1, 2, 3}, {1, 2}, MonthPairs, {NullPair}, {Null})

UserContractPatches ==
    ContractArgs({Absent, 1, 2, 3}, {Absent}, {NoPair}, {NoPair}, {Absent})

UserIds == {1, 2, 3, 4}
RoleIds == {Null, ROLE_ADMIN, ROLE_TENANT, ROLE_ACCOUNTANT}

NextUsers ==
    \/ \E a \in UserContractArgs : CreateContract(a)
    \/ \E id \in ContractIds, p \in UserContractPatches : UpdateContract(id, p)
    \/ \E cu \in UserIds, u \in UserIds, r \in RoleIds : UpdateUser(cu, u, r)

SpecUsers == Init /\ [][NextUsers]_vars

(***************************************************************************)
(* SpecCharges: charges of contracts whose windows are never changed.      *)
(***************************************************************************)
NextCharges ==
    \/ \E a \in CoreContractArgs : CreateContract(a)
    \/ \E a \in CoreChargeArgs : CreateCharge(a)
    \/ \E id \in ChargeIds, p \in CoreChargePatches : UpdateCharge(id, p)
    \/ \E id \in ChargeIds : DeleteCharge(id)

SpecCharges == Init /\ [][NextCharges]_vars

(***************************************************************************)
(* SpecPatch: the patch of update_contract.  Contracts are created with an *)
(* end date and an adjustment interval; patches leave fields out, give     *)
(* them values, or give them as null.                                      *)
(***************************************************************************)
PatchContractArgs == ContractArgs({2}, {1}, MonthPairs, {Pair(1)}, {12})

\* end_month given as null, end_year left out
NullMonthOnly == [m |-> Null, y |-> Absent]

EmptyPatch ==
    [user_id |-> Absent, apartment_id |-> Absent, start_month |-> Absent,
     start_year |-> Absent, end_month |-> Absent, end_year |-> Absent,
     adjustment_months |-> Absent]

PatchContractPatches ==
    ContractArgs({Absent, 3}, {Absent, 2}, {NoPair}, {NoPair}, {Absent})
    \cup ContractArgs({Absent}, {Absent}, {NoPair},
                      {NoPair, NullPair, NullMonthOnly, Pair(1)}, {Absent, Null, 6})
    \cup ContractArgs({Absent}, {Absent}, MonthPairs, {NoPair}, {Absent, Null})
    \cup ContractArgs({Null, 3}, {Absent}, {NoPair}, {NullPair}, {Null})

NextPatch ==
    \/ \E a \in PatchContractArgs : CreateContract(a)
    \/ \E id \in ContractIds, p \in PatchContractPatches : UpdateContract(id, p)

SpecPatch == Init /\ [][NextPatch]_vars

(***************************************************************************)
(* SpecPaid: payment dates.  Every charge is created with a payment date;  *)
(* update_charge sets another date or clears it; delete_charge removes.    *)
(***************************************************************************)
PaidAtCreation == Date(YearOf(0), MonthOf(0), 15)
PaidByUpdate == Date(YearOf(0), MonthOf(0), 20)

PaidChargeArgs == ChargeArgs(ContractIds, MonthPairs, {FalseVal}, {PaidAtCreation})

PaidChargePatches ==
    ChargePatches({Absent}, {NoPair} \cup MonthPairs, {Absent}, {Absent},
                  {Absent, Null, PaidByUpdate})

NextPaid ==
    \/ \E a \in CoreContractArgs : CreateContract(a)
    \/ \E a \in PaidChargeArgs : CreateCharge(a)
    \/ \E id \in ChargeIds, p \in PaidChargePatches : UpdateCharge(id, p)
    \/ \E id \in ChargeIds : DeleteCharge(id)

SpecPaid == Init /\ [][NextPaid]_vars

(***************************************************************************)
(* SpecVisible: two tenants, their contracts, and charges that are made    *)
(* visible or hidden, paid, and moved from one contract to the other.      *)
(***************************************************************************)
VisibleContractArgs == ContractArgs({2, 3}, {1, 2}, {Pair(0)}, {NullPair}, {Null})

VisibleContractPatches == ContractArgs({2, 3}, {Absent}, {NoPair}, {NoPair}, {Absent})

VisibleChargeArgs == ChargeArgs(ContractIds, MonthPairs, {TrueVal, FalseVal}, {Null})

VisibleChargePatches ==
    ChargePatches({Absent} \cup ContractIds, {NoPair}, {Absent}, {Absent}, {Absent})
    \cup ChargePatches({Absent}, {NoPair}, {Absent}, {Absent, TrueVal, FalseVal},
                       {Absent, PaidByUpdate})

NextVisible ==
    \/ \E a \in VisibleContractArgs : CreateContract(a)
    \/ \E id \in ContractIds, p \in VisibleContractPatches : UpdateContract(id, p)
    \/ \E a \in VisibleChargeArgs : CreateCharge(a)
    \/ \E id \in ChargeIds, p \in VisibleChargePatches : UpdateCharge(id, p)

SpecVisible == Init /\ [][NextVisible]_vars

\* the query parameters of the charge list: (year, month) given or not, unpaid,
\* apartment (3 is no apartment)
PeriodFilters == {NullPair} \cup MonthPairs
UnpaidFilters == {Null, TrueVal, FalseVal}
ApartmentFilters == {Null, 1, 2, 3}

(***************************************************************************)
(* SpecReads: the contracts of two tenants, with and without end dates,    *)
(* while the admin makes user 3 an accountant or a tenant again; the lists *)
(* are read as of the days around the months of the contracts.             *)
(***************************************************************************)
ReadsContractArgs ==
    ContractArgs({2, 3}, {1, 2}, MonthPairs, {NullPair} \cup MonthPairs, {Null})

ReadsContractPatches ==
    ContractArgs({Absent, 2, 3}, {Absent}, {NoPair}, {NoPair}, {Absent})

NextReads ==
    \/ \E a \in ReadsContractArgs : CreateContract(a)
    \/ \E id \in ContractIds, p \in ReadsContractPatches : UpdateContract(id, p)
    \/ \E r \in {ROLE_TENANT, ROLE_ACCOUNTANT} : UpdateUser(1, 3, r)

SpecReads == Init /\ [][NextReads]_vars

\* date.today(): the first and the last day of the months requests can name, and
\* of the month before and the month after them
Days ==
    UNION { {Date(YearOf(i), MonthOf(i), 1), GetLastDayOfMonth(YearOf(i), MonthOf(i))} :
            i \in -1 .. MaxMonths }

\* the query strings of GET /contracts
ContractQueries ==
    [user : {Absent, 2, 3}, apartment : {Absent, 1, 3}, active : {Absent, TrueVal, FalseVal}]

NoFilters == [user |-> Absent, apartment |-> Absent, active |-> Absent]

(***************************************************************************)
(* SpecDeletes: contracts that move between tenants and apartments, and    *)
(* the deletion of users and apartments.                                   *)
(***************************************************************************)
DeletesContractArgs == ContractArgs({2, 3}, {1, 2}, MonthPairs, {NullPair}, {Null})

DeletesContractPatches ==
    ContractArgs({Absent, 2, 3}, {Absent, 1, 2}, {NoPair}, {NoPair}, {Absent})

\* 3 is no apartment
ApartmentIds == {1, 2, 3}

NextDeletes ==
    \/ \E a \in DeletesContractArgs : CreateContract(a)
    \/ \E id \in ContractIds, p \in DeletesContractPatches : UpdateContract(id, p)
    \/ \E u \in UserIds : DeleteUser(u)
    \/ \E a \in ApartmentIds : DeleteApartment(a)

SpecDeletes == Init /\ [][NextDeletes]_vars

(***************************************************************************)
(* SpecCascade: contracts, their charges, and the deletion of both.        *)
(***************************************************************************)
CascadeChargePatches ==
    ChargePatches({Absent} \cup ContractIds, {NoPair}, {Absent}, {Absent}, {Absent})

NextCascade ==
    \/ \E a \in CoreContractArgs : CreateContract(a)
    \/ \E a \in CoreChargeArgs : CreateCharge(a)
    \/ \E id \in ChargeIds, p \in CascadeChargePatches : UpdateCharge(id, p)
    \/ \E id \in ChargeIds : DeleteCharge(id)
    \/ \E id \in ContractIds : DeleteContract(id)

SpecCascade == Init /\ [][NextCascade]_vars

(***************************************************************************)
(* SpecResolve: create_contract with tenants and apartments that exist or  *)
(* not (user 4 and apartment 3 are missing, user 1 is the admin), and end  *)
(* dates on either side of the start.                                      *)
(***************************************************************************)
ResolveContractArgs ==
    ContractArgs({1, 2, 3, 4}, {1, 2, 3}, MonthPairs, {NullPair} \cup MonthPairs, {Null})

NextResolve ==
    \/ \E a \in ResolveContractArgs : CreateContract(a)
    \/ \E id \in ContractIds, p \in KeyContractPatches : UpdateContract(id, p)

SpecResolve == Init /\ [][NextResolve]_vars

(***************************************************************************)
(* SpecActivity: the activity policy as a function.  The policy is built   *)
(* for a reference date and asked about a start date and an end date, any  *)
(* of the days around the months requests can name, the end possibly null. *)
(***************************************************************************)
\* ContractActivityPolicy(as_of=...) and the keyword arguments of its methods
ActivityInputs == [as_of : Days, start_date : Days, end_date : Days \cup {Null}]

InitActivity ==
    /\ users = (1 :> [role_id |-> ROLE_ADMIN])
    /\ apartments = EmptyTable
    /\ contracts = EmptyTable
    /\ charges = EmptyTable
    /\ next_contract_id = 1
    /\ next_charge_id = 1
    /\ pending = [s \in Sessions |-> Idle]
    /\ \E a \in ActivityInputs : last = [op |-> "policy", id |-> a, result |-> Null]

\* policy.is_active(start_date=..., end_date=...)
IsActive ==
    /\ last' = [op |-> "is_active", id |-> last.id,
                result |-> is_active(last.id.as_of, last.id.start_date, last.id.end_date)]
    /\ UNCHANGED <<users, apartments, contracts, charges, next_contract_id, next_charge_id,
                   pending>>

\* policy.is_inactive(start_date=..., end_date=...)
IsInactive ==
    /\ last' = [op |-> "is_inactive", id |-> last.id,
                result |-> is_inactive(last.id.as_of, last.id.start_date, last.id.end_date)]
    /\ UNCHANGED <<users, apartments, contracts, charges, next_contract_id, next_charge_id,
                   pending>>

NextActivity == IsActive \/ IsInactive

SpecActivity == InitActivity /\ [][NextActivity]_vars

(***************************************************************************)
(* SpecNormalize: the normalization of a (month, year) pair as a function, *)
(* for every pair the schema admits.                                       *)
(***************************************************************************)
\* ContractCreate: start_year and end_year have ge=1900, le=2100
MinYear == 1900
MaxYear == 2100

\* the (month, year) pairs of ContractCreate
SchemaPairs == [month : 1 .. 12, year : MinYear .. MaxYear]

InitNormalize ==
    /\ users = (1 :> [role_id |-> ROLE_ADMIN])
    /\ apartments = EmptyTable
    /\ contracts = EmptyTable
    /\ charges = EmptyTable
    /\ next_contract_id = 1
    /\ next_charge_id = 1
    /\ pending = [s \in Sessions |-> Idle]
    /\ \E a \in SchemaPairs : last = [op |-> "pair", id |-> a, result |-> Null]

\* create_contract, line 38: start_date = date(start_year, start_month, 1)
NormalizeStart ==
    /\ last' = [op |-> "start_date", id |-> last.id,
                result |-> Date(last.id.year, last.id.month, 1)]
    /\ UNCHANGED <<users, apartments, contracts, charges, next_contract_id, next_charge_id,
                   pending>>

\* create_contract, line 43: end_date = _get_last_day_of_month(end_year, end_month)
NormalizeEnd ==
    /\ last' = [op |-> "end_date", id |-> last.id,
                result |-> GetLastDayOfMonth(last.id.year, last.id.month)]
    /\ UNCHANGED <<users, apartments, contracts, charges, next_contract_id, next_charge_id,
                   pending>>

NextNormalize == NormalizeStart \/ NormalizeEnd

SpecNormalize == InitNormalize /\ [][NextNormalize]_vars

(***************************************************************************)
(* SpecApartments: apartments created and updated, on two floors with two  *)
(* letters; apartment 4 never exists.                                      *)
(***************************************************************************)
Floors == {1, 2}
Letters == {"A", "B"}
ApartmentRowIds == 1 .. (MaxApartments + 1)

NextApartments ==
    \/ \E f \in Floors, l \in Letters : CreateApartment(f, l)
    \/ \E id \in ApartmentRowIds, f \in Floors \cup {Null}, l \in Letters \cup {NoLetter} :
          UpdateApartment(id, f, l)

SpecApartments == Init /\ [][NextApartments]_vars

(***************************************************************************)
(* SpecRace: a contract whose window is moved while charges are created    *)
(* for it and moved to other months, by requests served at the same time.  *)
(***************************************************************************)
RaceContractPatches ==
    ContractArgs({Absent}, {Absent}, {NoPair} \cup MonthPairs,
                 {NoPair, NullPair} \cup MonthPairs, {Absent})

RaceChargeArgs == ChargeArgs({1}, MonthPairs, {FalseVal}, {Null})

RaceChargePatches == ChargePatches({Absent}, MonthPairs, {Absent}, {Absent}, {Absent})

NextRace ==
    \/ \E a \in CoreContractArgs : CreateContract(a)
    \/ \E s \in Sessions, p \in RaceContractPatches : ReadUpdateContract(s, 1, p)
    \/ \E s \in Sessions : WriteUpdateContract(s)
    \/ \E s \in Sessions, a \in RaceChargeArgs : ReadCreateCharge(s, a)
    \/ \E s \in Sessions : WriteCreateCharge(s)
    \/ \E s \in Sessions, id \in ChargeIds, p \in RaceChargePatches :
          ReadUpdateCharge(s, id, p)
    \/ \E s \in Sessions : WriteUpdateCharge(s)

SpecRace == Init /\ [][NextRace]_vars

(***************************************************************************)
(* SpecDup: contracts and charges created by requests served at the same   *)
(* time, with the same and with different keys.                            *)
(***************************************************************************)
DupContractArgs == ContractArgs({2, 3}, {1, 2}, MonthPairs, {NullPair}, {Null})

DupChargeArgs == ChargeArgs(ContractIds, MonthPairs, {FalseVal}, {Null})

NextDup ==
    \/ \E s \in Sessions, a \in DupContractArgs : ReadCreateContract(s, a)
    \/ \E s \in Sessions : WriteCreateContract(s)
    \/ \E s \in Sessions, a \in DupChargeArgs : ReadCreateCharge(s, a)
    \/ \E s \in Sessions : WriteCreateCharge(s)

SpecDup == Init /\ [][NextDup]_vars

(***************************************************************************)
(* SpecPages: contracts of two apartments, some with the same start date,  *)
(* listed page by page by the admin.                                       *)
(***************************************************************************)
PagesContractArgs == ContractArgs({2}, {1, 2}, MonthPairs, {NullPair, Pair(0)}, {Null})

\* page and page_size of the query string (ge=1)
PageNumbers == 1 .. (MaxContracts + 1)
PageSizes == 1 .. MaxContracts

PageQueries ==
    [page_size : PageSizes, user : {Null}, apartment : {Null, 1},
     active : {TrueVal, FalseVal},
     as_of : {Date(YearOf(0), MonthOf(0), 1), Date(YearOf(1), MonthOf(1), 1)}]

NextPages ==
    \/ \E a \in PagesContractArgs : CreateContract(a)
    \/ \E page \in PageNumbers, q \in PageQueries : ListContractsPage(page, q)

SpecPages == Init /\ [][NextPages]_vars

(***************************************************************************)
(* SpecAdmins: users created, given other roles and deleted, by any user   *)
(* as the caller; user 2 may be the tenant of a contract.                  *)
(***************************************************************************)
AdminsContractArgs == ContractArgs({2}, {1}, {Pair(0)}, {NullPair}, {Null})

\* ids of the rows of the users table, and one more
UserRowIds == 1 .. (MaxUsers + 1)
\* role_id of a request body: none, the three roles, and no role
RequestRoleIds == {Null, ROLE_ADMIN, ROLE_TENANT, ROLE_ACCOUNTANT, 4}

NextAdmins ==
    \/ \E a \in AdminsContractArgs : CreateContract(a)
    \/ \E cu \in UserRowIds, r \in RequestRoleIds, e \in BOOLEAN, pw \in BOOLEAN :
          CreateUser(cu, r, e, pw)
    \/ \E cu \in UserRowIds, u \in UserRowIds, r \in RequestRoleIds : UpdateUser(cu, u, r)
    \/ \E cu \in UserRowIds, u \in UserRowIds : DeleteUserById(cu, u)

SpecAdmins == Init /\ [][NextAdmins]_vars

(***************************************************************************)
(* What a request asks for, read off the request alone.                    *)
(***************************************************************************)
\* the patch carries a whole (month, year) pair with values
GivesPair(m, y) == m \notin {Absent, Null} /\ y \notin {Absent, Null}

\* the patch touches nothing but the dates
OnlyDates(p) ==
    p.user_id = Absent /\ p.apartment_id = Absent /\ p.adjustment_months = Absent

\* the start date the contract is asked to have
AskedStart(contract, p) ==
    IF GivesPair(p.start_month, p.start_year) THEN Date(p.start_year, p.start_month, 1)
    ELSE contract.start_date

\* the end date the contract is asked to have: the last day of the month given,
\* none when the pair is given as null, the stored one when the pair is left out
AskedEnd(contract, p) ==
    IF GivesPair(p.end_month, p.end_year) THEN GetLastDayOfMonth(p.end_year, p.end_month)
    ELSE IF p.end_month = Absent /\ p.end_year = Absent THEN contract.end_date
    ELSE Null

\* the patch asks for a new start and/or end, with whole pairs
AsksWindow(p) ==
    /\ \/ GivesPair(p.start_month, p.start_year)
       \/ (p.start_month = Absent /\ p.start_year = Absent)
    /\ \/ GivesPair(p.end_month, p.end_year)
       \/ (p.end_month = Absent /\ p.end_year = Absent)
       \/ (p.end_month = Null /\ p.end_year = Null)
    /\ ~(p.start_month = Absent /\ p.end_month = Absent /\ p.end_year = Absent)

\* period p lies in the window [start, end], both bounds included, no end = unbounded
InWindow(period, start, end) == start <= period /\ (end = Null \/ period <= end)

\* some other contract has the (apartment, start date) pair
PairTaken(id, apartment_id, start_date) ==
    \E c \in DOMAIN contracts \ {id} :
        contracts[c].apartment_id = apartment_id /\ contracts[c].start_date = start_date

(***************************************************************************)
(* Claims.                                                                 *)
(***************************************************************************)
\* C1: an update_contract that changes the start and/or end date of a contract
\* fails with DomainValidation, leaving the contract unchanged, whenever a charge
\* attached to the contract has a period before the new start or after the new end.
C1_UpdateRejectsChargeOutsideNewWindow ==
    [][\A p \in CoreContractPatches :
        LET id == last'.id IN
        ( /\ last'.op = "update_contract"
          /\ id \in DOMAIN contracts
          /\ OnlyDates(p) /\ AsksWindow(p)
          /\ ~PairTaken(id, contracts[id].apartment_id, AskedStart(contracts[id], p))
          /\ \E ch \in get_charges_by_contract_id(id) :
                ~InWindow(charges[ch].period, AskedStart(contracts[id], p),
                          AskedEnd(contracts[id], p))
          /\ UpdateContract(id, p) )
        => (last'.result = DomainValidation /\ contracts' = contracts)]_vars

\* C2: every stored charge's period is on or after its contract's start and, when
\* the contract has an end, on or before that end.
C2_ChargesInsideContractWindow ==
    \A ch \in DOMAIN charges :
        /\ charges[ch].contract_id \in DOMAIN contracts
        /\ InWindow(charges[ch].period, contracts[charges[ch].contract_id].start_date,
                    contracts[charges[ch].contract_id].end_date)

\* C3: every stored contract with an end date has start <= end.
C3_StartNotAfterEnd ==
    \A c \in DOMAIN contracts :
        contracts[c].end_date # Null => contracts[c].start_date <= contracts[c].end_date

\* C4: the tenant of every stored contract is an existing user whose role is "tenant".
C4_ContractTenantHasTenantRole ==
    \A c \in DOMAIN contracts :
        /\ contracts[c].user_id \in DOMAIN users
        /\ RoleName(users[contracts[c].user_id].role_id) = "tenant"

\* the contract row a patch asks for: every field of the patch, the others kept
AskedContract(contract, p) ==
    [user_id |-> IF p.user_id = Absent THEN contract.user_id ELSE p.user_id,
     apartment_id |-> IF p.apartment_id = Absent THEN contract.apartment_id
                      ELSE p.apartment_id,
     start_date |-> AskedStart(contract, p),
     end_date |-> AskedEnd(contract, p),
     adjustment_months |-> IF p.adjustment_months = Absent THEN contract.adjustment_months
                           ELSE p.adjustment_months]

\* the charge row a patch asks for
AskedCharge(charge, p) ==
    [contract_id |-> IF p.contract_id = Absent THEN charge.contract_id ELSE p.contract_id,
     period |-> IF GivesPair(p.month, p.year) THEN Date(p.year, p.month, 1)
                ELSE charge.period,
     rent |-> IF p.rent = Absent THEN charge.rent ELSE p.rent,
     is_visible |-> IF p.is_visible = Absent THEN charge.is_visible ELSE p.is_visible,
     payment_date |-> IF p.payment_date = Absent THEN charge.payment_date
                      ELSE p.payment_date]

\* C5: a create or update of a contract or a charge that returns an error leaves
\* the stored contracts and charges as they were; a successful update writes every
\* field of its patch to the row in the same step and touches no other row.
C5_FailureWritesNothingSuccessWritesAll ==
    [][ /\ (last'.result # OK => (contracts' = contracts /\ charges' = charges))
        /\ \A p \in CoreContractPatches :
              ( /\ last'.op = "update_contract" /\ last'.result = OK
                /\ UpdateContract(last'.id, p) )
              => /\ contracts' = Put(contracts, last'.id,
                                     AskedContract(contracts[last'.id], p))
                 /\ charges' = charges
        /\ \A p \in CoreChargePatches :
              ( /\ last'.op = "update_charge" /\ last'.result = OK
                /\ UpdateCharge(last'.id, p) )
              => /\ charges' = Put(charges, last'.id, AskedCharge(charges[last'.id], p))
                 /\ contracts' = contracts ]_vars

\* C5 witness: an update of a stored contract that has a charge was refused
C5_Witness ==
    /\ last.op = "update_contract"
    /\ last.result \in {DomainValidation, DuplicateResource, IntegrityError}
    /\ last.id \in DOMAIN contracts
    /\ get_charges_by_contract_id(last.id) # {}

\* C6: an update_contract that only changes the window, keeps start <= end and
\* does not take another contract's (apartment, start) pair succeeds whenever every
\* attached charge lies in the new window, bounds included; clearing the end date
\* succeeds whatever charges are attached.
C6_CompatibleWindowUpdateSucceeds ==
    [][\A p \in CoreContractPatches :
        LET id == last'.id
            start == AskedStart(contracts[id], p)
            end == AskedEnd(contracts[id], p)
            clearsEnd == /\ p.start_month = Absent /\ p.start_year = Absent
                         /\ p.end_month = Null /\ p.end_year = Null
        IN ( /\ last'.op = "update_contract"
             /\ id \in DOMAIN contracts
             /\ OnlyDates(p) /\ AsksWindow(p)
             /\ end = Null \/ start <= end
             /\ ~PairTaken(id, contracts[id].apartment_id, start)
             /\ \/ clearsEnd
                \/ \A ch \in get_charges_by_contract_id(id) :
                      InWindow(charges[ch].period, start, end)
             /\ UpdateContract(id, p) )
           => /\ last'.result = OK
              /\ contracts'[id].start_date = start
              /\ contracts'[id].end_date = end ]_vars

\* C6 witness: the end date of a contract was cleared, or moved to the month of
\* one of its charges, and the update succeeded
C6_Witness ==
    /\ last.op = "update_contract" /\ last.result = OK
    /\ \E ch \in get_charges_by_contract_id(last.id) :
          \/ contracts[last.id].end_date = Null
          \/ /\ DateYear(contracts[last.id].end_date) = DateYear(charges[ch].period)
             /\ DateMonth(contracts[last.id].end_date) = DateMonth(charges[ch].period)

\* C7: no two contracts share (apartment, start date); a create or update that is
\* valid but for giving a contract the pair of another contract fails with
\* DuplicateResource, whoever the tenant is, and no request is refused as a
\* duplicate unless its pair is the pair of another contract.
C7_NoTwoContractsSharePair ==
    \A c, d \in DOMAIN contracts :
        (c # d) => ~(/\ contracts[c].apartment_id = contracts[d].apartment_id
                     /\ contracts[c].start_date = contracts[d].start_date)

C7_CreateRefusedIffPairTaken ==
    \A a \in KeyContractArgs :
        LET start == Date(a.start_year, a.start_month, 1)
            taken == PairTaken(Null, a.apartment_id, start)
            valid == /\ a.user_id \in DOMAIN users
                     /\ RoleName(users[a.user_id].role_id) = "tenant"
                     /\ a.end_month = Null
                        \/ GetLastDayOfMonth(a.end_year, a.end_month) >= start
        IN (last'.op = "create_contract" /\ CreateContract(a))
           => /\ (last'.result = DuplicateResource) => taken
              /\ (taken /\ valid) => (last'.result = DuplicateResource)
              /\ taken => (contracts' = contracts)

C7_UpdateRefusedIffPairTaken ==
    \A p \in KeyContractPatches :
        LET id == last'.id
            asked == AskedContract(contracts[id], p)
            taken == PairTaken(id, asked.apartment_id, asked.start_date)
            valid == /\ asked.user_id \in DOMAIN users
                     /\ RoleName(users[asked.user_id].role_id) = "tenant"
                     /\ asked.apartment_id \in DOMAIN apartments
        IN (last'.op = "update_contract" /\ id \in DOMAIN contracts /\ UpdateContract(id, p))
           => /\ (last'.result = DuplicateResource) => taken
              /\ (taken /\ valid) => (last'.result = DuplicateResource)
              /\ taken => (contracts' = contracts)

C7_ContractKeyIsApartmentAndStart ==
    /\ []C7_NoTwoContractsSharePair
    /\ [][C7_CreateRefusedIffPairTaken /\ C7_UpdateRefusedIffPairTaken]_vars

\* C7 witness: with two contracts stored (same start date, different apartments, or
\* same apartment, different start dates), an update that would have given one the
\* pair of the other was refused as a duplicate
C7_Witness ==
    /\ last.op = "update_contract" /\ last.result = DuplicateResource
    /\ Cardinality(DOMAIN contracts) = 2
    /\ \E c, d \in DOMAIN contracts :
          /\ c # d
          /\ contracts[c].start_date = contracts[d].start_date
          /\ contracts[c].user_id # contracts[d].user_id

\* some other charge has the (contract, period) pair
ChargePairTaken(id, contract_id, period) ==
    \E c \in DOMAIN charges \ {id} :
        charges[c].contract_id = contract_id /\ charges[c].period = period

\* C8: no two charges share (contract, period); a create, or an update that changes
\* the contract or the period, that would give a charge the pair of another charge
\* fails with DuplicateResource; the charge's own row does not count.
C8_NoTwoChargesSharePair ==
    \A c, d \in DOMAIN charges :
        (c # d) => ~(/\ charges[c].contract_id = charges[d].contract_id
                     /\ charges[c].period = charges[d].period)

C8_CreateRefusedWhenPairTaken ==
    \A a \in CoreChargeArgs :
        (last'.op = "create_charge" /\ CreateCharge(a))
        => /\ ChargePairTaken(Null, a.contract_id, Date(a.year, a.month, 1))
                <=> (last'.result = DuplicateResource)
           /\ (last'.result = DuplicateResource) => (charges' = charges)

C8_UpdateRefusedWhenPairTaken ==
    \A p \in CoreChargePatches :
        LET id == last'.id
            asked == AskedCharge(charges[id], p)
            changes == GivesPair(p.month, p.year) \/ p.contract_id \notin {Absent, Null}
            whole == GivesPair(p.month, p.year) \/ (p.month = Absent /\ p.year = Absent)
        IN ( /\ last'.op = "update_charge" /\ id \in DOMAIN charges
             /\ p.contract_id # Null
             /\ UpdateCharge(id, p) )
           => /\ (changes /\ whole /\ ChargePairTaken(id, asked.contract_id, asked.period))
                    <=> (last'.result = DuplicateResource)
              /\ (last'.result = DuplicateResource) => (charges' = charges)
              \* re-saving the charge with its own pair is no duplicate
              /\ (/\ changes /\ whole
                  /\ asked.contract_id = charges[id].contract_id
                  /\ asked.period = charges[id].period)
                 => (last'.result = OK)

C8_ChargeKeyIsContractAndPeriod ==
    /\ []C8_NoTwoChargesSharePair
    /\ [][C8_CreateRefusedWhenPairTaken /\ C8_UpdateRefusedWhenPairTaken]_vars

\* C8 witness: an update of one of two stored charges was refused as a duplicate
C8_Witness ==
    /\ last.op = "update_charge" /\ last.result = DuplicateResource
    /\ Cardinality(DOMAIN charges) = 2

\* (year, month) of a date as one number, to compare months
YearMonth(d) == DateYear(d) * 12 + DateMonth(d)

\* the month (month, year) is before the month of the contract's start date, or
\* the contract has an end date and the month is after the month of that date
MonthOutsideContract(month, year, contract) ==
    \/ year * 12 + month < YearMonth(contract.start_date)
    \/ contract.end_date # Null /\ year * 12 + month > YearMonth(contract.end_date)

\* C9: create_charge on an existing contract is rejected with DomainValidation
\* exactly when its month is before the contract's start month, or the contract has
\* an end and its month is after the end's month; the start month and the end
\* month themselves are accepted.
C9_CreateChargeRejectedIffOutsideWindow ==
    [][\A a \in CoreChargeArgs :
        ( /\ last'.op = "create_charge"
          /\ a.contract_id \in DOMAIN contracts
          /\ CreateCharge(a) )
        => /\ (last'.result = DomainValidation)
                <=> MonthOutsideContract(a.month, a.year, contracts[a.contract_id])
           /\ (last'.result = DomainValidation) => (charges' = charges)]_vars

\* C9 witness: a charge was created in the month of its contract's end date, or
\* on its contract's start date
C9_Witness ==
    /\ last.op = "create_charge" /\ last.result = OK
    /\ LET ch == charges[last.id]
           contract == contracts[ch.contract_id]
       IN  /\ contract.end_date # Null
           /\ contract.start_date <= contract.end_date
           /\ YearMonth(ch.period) = YearMonth(contract.end_date)

\* C10: update_charge checks the pair the charge will have: when the patch names a
\* contract and/or a period, the period the charge will have (the new one, or the
\* stored one) is checked against the window of the contract it will have (the new
\* one, or the stored one), and the update fails with DomainValidation, changing
\* nothing, when that period is outside that window.
C10_UpdateChargeChecksMergedPair ==
    [][\A p \in CoreChargePatches :
        LET id == last'.id
            asked == AskedCharge(charges[id], p)
        IN ( /\ last'.op = "update_charge"
             /\ id \in DOMAIN charges
             /\ GivesPair(p.month, p.year) \/ (p.month = Absent /\ p.year = Absent)
             /\ GivesPair(p.month, p.year) \/ p.contract_id \notin {Absent, Null}
             /\ p.contract_id # Null
             /\ asked.contract_id \in DOMAIN contracts
             /\ UpdateCharge(id, p) )
           => /\ (last'.result = DomainValidation)
                   <=> ~InWindow(asked.period, contracts[asked.contract_id].start_date,
                                 contracts[asked.contract_id].end_date)
              /\ (last'.result = DomainValidation) => (charges' = charges)]_vars

\* C10 witness: a charge was refused a move to another contract in whose window
\* its stored period does not lie
C10_Witness ==
    /\ last.op = "update_charge" /\ last.result = DomainValidation
    /\ last.id \in DOMAIN charges
    /\ \E c \in DOMAIN contracts :
          /\ c # charges[last.id].contract_id
          /\ ~InWindow(charges[last.id].period, contracts[c].start_date,
                       contracts[c].end_date)

\* the patch gives nothing but nulls, and only to the nullable fields
OnlyNulls(p) ==
    /\ p.user_id = Absent /\ p.apartment_id = Absent
    /\ p.start_month = Absent /\ p.start_year = Absent
    /\ p.end_month \in {Absent, Null} /\ p.end_year \in {Absent, Null}
    /\ p.adjustment_months \in {Absent, Null}

\* C11: update_contract keeps the stored value of every field its patch leaves
\* out, clears the end date and the adjustment months when they are given as null
\* (such a patch alone always succeeds), changes nothing on an empty patch, and
\* touches no other contract.
C11_AbsentKeptNullCleared ==
    [][\A p \in PatchContractPatches :
        LET id == last'.id
            old == contracts[id]
            new == contracts'[id]
        IN ( /\ last'.op = "update_contract"
             /\ id \in DOMAIN contracts
             /\ UpdateContract(id, p) )
           => /\ (p.user_id = Absent) => (new.user_id = old.user_id)
              /\ (p.apartment_id = Absent) => (new.apartment_id = old.apartment_id)
              /\ (p.adjustment_months = Absent)
                    => (new.adjustment_months = old.adjustment_months)
              /\ (p.start_month = Absent /\ p.start_year = Absent)
                    => (new.start_date = old.start_date)
              /\ (p.end_month = Absent /\ p.end_year = Absent)
                    => (new.end_date = old.end_date)
              /\ OnlyNulls(p) => (last'.result = OK)
              /\ (last'.result = OK /\ p.adjustment_months = Null)
                    => (new.adjustment_months = Null)
              /\ (last'.result = OK /\ p.end_month = Null /\ p.end_year = Null)
                    => (new.end_date = Null)
              /\ (p = EmptyPatch) => (last'.result = OK /\ contracts' = contracts)
              /\ \A c \in DOMAIN contracts \ {id} : contracts'[c] = contracts[c] ]_vars

\* C11 witness: a contract created with an end date and an adjustment interval has
\* lost both through a successful update, its tenant and apartment being changed
\* by patches that left the dates out
C11_Witness ==
    /\ last.op = "update_contract" /\ last.result = OK
    /\ contracts[last.id].end_date = Null
    /\ contracts[last.id].adjustment_months = Null
    /\ contracts[last.id].user_id = 3
    /\ contracts[last.id].apartment_id = 2

\* C12: delete_charge on a stored charge fails with DomainValidation, the charge
\* staying as it is, exactly when the charge has a payment date at the time of the
\* call (set at creation or by an earlier update_charge); otherwise it succeeds
\* and removes that charge and no other.
C12_DeleteOnlyWhenUnpaid ==
    [][ ( /\ last'.op = "delete_charge"
          /\ last'.id \in DOMAIN charges
          /\ DeleteCharge(last'.id) )
        => /\ (charges[last'.id].payment_date # Null)
                 <=> (last'.result = DomainValidation)
           /\ (charges[last'.id].payment_date = Null) <=> (last'.result = OK)
           /\ (last'.result = DomainValidation) => (charges' = charges)
           /\ (last'.result = OK) => (charges' = Drop(charges, last'.id)) ]_vars

\* C12 witness: the delete of a charge whose payment date was set by update_charge
\* was refused
C12_Witness ==
    /\ last.op = "delete_charge" /\ last.result = DomainValidation
    /\ last.id \in DOMAIN charges
    /\ charges[last.id].payment_date = PaidByUpdate

\* C13 as stated: a charge on which a payment date has been recorded is never
\* deleted afterwards.  Every charge of SpecPaid is created with a payment date,
\* so there the statement is that no stored charge is ever removed.
C13_OncePaidNeverDeleted ==
    [][\A id \in DOMAIN charges : id \in DOMAIN charges']_vars

\* C13 amended: no step removes a charge that has a payment date in the state the
\* step starts from; a charge whose payment date update_charge has cleared is
\* removed by delete_charge.
C13_NotDeletedWhilePaid ==
    [][ /\ \A id \in DOMAIN charges :
              (charges[id].payment_date # Null) => (id \in DOMAIN charges')
        /\ \A id \in DOMAIN charges :
              ( /\ charges[id].payment_date = Null
                /\ last'.op = "delete_charge" /\ last'.id = id
                /\ DeleteCharge(id) )
              => (id \notin DOMAIN charges') ]_vars

\* C13 witness: a charge created with a payment date has been deleted (its id was
\* handed out and is no longer stored) while another paid charge is still stored
C13_Witness ==
    /\ last.op = "delete_charge" /\ last.result = OK
    /\ last.id \notin DOMAIN charges
    /\ \E id \in DOMAIN charges : charges[id].payment_date # Null

\* the users that hold the tenant role
Tenants == {u \in DOMAIN users : RoleName(users[u].role_id) = "tenant"}

\* the charges of the table that are visible and whose contract's tenant is u
OwnVisible(table, u) ==
    {c \in DOMAIN table :
        /\ table[c].is_visible = TrueVal
        /\ table[c].contract_id \in DOMAIN contracts
        /\ contracts[table[c].contract_id].user_id = u}

\* the table without the rows of the set hidden
Without(table, hidden) == [c \in DOMAIN table \ hidden |-> table[c]]

C15_TenantFiltersForbidden ==
    \A u \in Tenants, q \in ContractQueries, today \in Days :
        (q.user # Absent \/ q.apartment # Absent \/ q.active # Absent)
            => (get_all_contracts(u, q, today).result = Forbidden)

\* the contracts whose tenant is u
OwnContracts(u) == {c \in DOMAIN contracts : contracts[c].user_id = u}

\* C16: a tenant's contract list holds contracts of the caller only, and all of
\* the caller's contracts that are active on the day; a tenant's fetch of a stored
\* contract by id returns it when it is the caller's and is denied with Forbidden
\* when it is another user's.
C16_TenantReadsOwnContracts ==
    \A u \in Tenants :
        /\ \A q \in ContractQueries, today \in Days :
              LET got == get_all_contracts(u, q, today)
              IN  (got.result = OK) => (got.row \subseteq OwnContracts(u))
        /\ \A today \in Days :
              LET got == get_all_contracts(u, NoFilters, today)
              IN  /\ got.result = OK
                  /\ got.row = {c \in OwnContracts(u) :
                                  is_active(today, contracts[c].start_date,
                                            contracts[c].end_date)}
        /\ \A c \in DOMAIN contracts :
              LET got == get_contract_by_id_route(u, c)
              IN  IF c \in OwnContracts(u)
                  THEN got.result = OK /\ got.row = contracts[c]
                  ELSE got.result = Forbidden

\* C16 witness: tenants 2 and 3 each have a contract; on the first day of the
\* contract of tenant 2 the list of tenant 2 is that contract alone
C16_Witness ==
    \E c, d \in DOMAIN contracts :
        /\ contracts[c].user_id = 2 /\ contracts[d].user_id = 3
        /\ {2, 3} \subseteq Tenants
        /\ get_all_contracts(2, NoFilters, contracts[c].start_date).row = {c}
        /\ get_contract_by_id_route(2, d).result = Forbidden

\* the apartments for which tenant u has a contract active on the day
ActiveApartments(u, today) ==
    {contracts[c].apartment_id :
        c \in {k \in OwnContracts(u) :
                  is_active(today, contracts[k].start_date, contracts[k].end_date)}}

\* C17: GET /apartments gives a tenant exactly the apartments for which the
\* tenant has a contract active on the day (start <= today, and no end or
\* end >= today), and gives an admin or an accountant all apartments.
C17_ApartmentListByRole ==
    \A u \in DOMAIN users, today \in Days :
        LET got == get_all_apartments(u, today)
        IN  /\ got.result = OK
            /\ got.row = IF u \in Tenants THEN ActiveApartments(u, today)
                         ELSE DOMAIN apartments

\* C18: an update_user that carries a role and is issued by a caller who is not
\* an admin, or by any caller on the caller's own record, is rejected
\* (DomainValidation when the user exists) and leaves every user as it was; and a
\* user's role changes in no step but an update_user issued by an admin on
\* another user.
C18_RoleChangedOnlyByAdminOnOther ==
    [][ /\ \A cu \in UserIds, u \in UserIds, r \in RoleIds :
              ( /\ last'.op = "update_user" /\ last'.id = u
                /\ r # Null
                /\ cu \in DOMAIN users
                /\ RoleName(users[cu].role_id) # "admin" \/ cu = u
                /\ UpdateUser(cu, u, r) )
              => /\ last'.result # OK
                 /\ (u \in DOMAIN users) => (last'.result = DomainValidation)
                 /\ users' = users
        /\ \A u \in DOMAIN users :
              (u \notin DOMAIN users' \/ users'[u].role_id # users[u].role_id)
              => /\ last'.op = "update_user" /\ last'.id = u /\ last'.result = OK
                 /\ \E cu \in DOMAIN users \ {u}, r \in RoleIds \ {Null} :
                       /\ RoleName(users[cu].role_id) = "admin"
                       /\ UpdateUser(cu, u, r) ]_vars

\* C18 witness: an update_user on the only admin was rejected after the admin had
\* changed the role of another user
C18_Witness ==
    /\ last.op = "update_user" /\ last.result = DomainValidation
    /\ {u \in DOMAIN users : users[u].role_id = ROLE_ADMIN} = {last.id}
    /\ \E u \in DOMAIN users : users[u].role_id = ROLE_ACCOUNTANT

\* C19: the tenant and the apartment of every stored contract are stored records;
\* delete_user of a user and delete_apartment of an apartment that a contract
\* references fail with DomainValidation and leave the record stored.
C19_ReferencesResolve ==
    \A c \in DOMAIN contracts :
        /\ contracts[c].user_id \in DOMAIN users
        /\ contracts[c].apartment_id \in DOMAIN apartments

C19_ReferencedNotDeleted ==
    /\ ( /\ last'.op = "delete_user"
         /\ last'.id \in DOMAIN users
         /\ get_contracts_by_user_id(last'.id) # {}
         /\ DeleteUser(last'.id) )
       => (last'.result = DomainValidation /\ users' = users)
    /\ ( /\ last'.op = "delete_apartment"
         /\ last'.id \in DOMAIN apartments
         /\ get_contracts_by_apartment_id(last'.id) # {}
         /\ DeleteApartment(last'.id) )
       => (last'.result = DomainValidation /\ apartments' = apartments)

C19_ContractRefsProtected ==
    /\ []C19_ReferencesResolve
    /\ [][C19_ReferencedNotDeleted]_vars

\* C19 witness: after another user and another apartment were deleted, the delete
\* of a tenant who has a contract was refused
C19_Witness ==
    /\ last.op = "delete_user" /\ last.result = DomainValidation
    /\ last.id \in DOMAIN users
    /\ RoleName(users[last.id].role_id) = "tenant"
    /\ get_contracts_by_user_id(last.id) # {}
    /\ Cardinality(DOMAIN users) = 2
    /\ Cardinality(DOMAIN apartments) = 1

\* C20: the contract of every stored charge is a stored contract; the delete of
\* a contract that a charge references fails and leaves the contract and the
\* charges as they were.
C20_ChargeContractResolves ==
    \A ch \in DOMAIN charges : charges[ch].contract_id \in DOMAIN contracts

C20_ReferencedContractNotDeleted ==
    ( /\ last'.op = "delete_contract"
      /\ last'.id \in DOMAIN contracts
      /\ get_charges_by_contract_id(last'.id) # {}
      /\ DeleteContract(last'.id) )
    => (last'.result # OK /\ contracts' = contracts /\ charges' = charges)

C20_ChargeRefsProtected ==
    /\ []C20_ChargeContractResolves
    /\ [][C20_ReferencedContractNotDeleted]_vars

\* C20 witness: the delete of a contract that has a charge was refused, after the
\* other contract, which had none, was deleted
C20_Witness ==
    /\ last.op = "delete_contract" /\ last.result = IntegrityError
    /\ last.id \in DOMAIN contracts
    /\ get_charges_by_contract_id(last.id) # {}
    /\ Cardinality(DOMAIN contracts) = 1
    /\ next_contract_id > MaxContracts

\* C21: create_contract fails with NotFound whenever the tenant id or the apartment
\* id does not resolve to an existing record, whatever the other arguments are.
C21_CreateNotFoundWhenUnresolved ==
    [][\A a \in ResolveContractArgs :
        ( /\ last'.op = "create_contract"
          /\ a.user_id \notin DOMAIN users \/ a.apartment_id \notin DOMAIN apartments
          /\ CreateContract(a) )
        => last'.result = NotFound]_vars

\* schemas/contract.py ContractUpdate: every field may be left out or null; the
\* pairs (start_month, start_year) and (end_month, end_year) are whole or null,
\* adjustment_months is null or > 0
ContractUpdateAdmits(p) ==
    /\ (Get(p, "start_month") = Null) = (Get(p, "start_year") = Null)
    /\ (Get(p, "end_month") = Null) = (Get(p, "end_year") = Null)
    /\ Get(p, "adjustment_months") = Null \/ Get(p, "adjustment_months") > 0

\* schemas/charge.py ChargeUpdate: every field may be left out or null; month and
\* year are both given or both null, amounts are null or >= 0
ChargeUpdateAdmits(p) ==
    /\ (Get(p, "month") = Null) = (Get(p, "year") = Null)
    /\ Get(p, "rent") = Null \/ Get(p, "rent") >= 0

\* the outcomes of section 7: success or a DomainError
Classified ==
    {OK, NotFound, DuplicateResource, DomainValidation, Forbidden, "Unauthorized"}

\* C22: every contract and charge operation, for every input the patch schema
\* admits (patches with explicit nulls included), ends in success or in one of
\* NotFound, DuplicateResource, DomainValidation, Forbidden, Unauthorized, and
\* never in an unclassified persistence failure.
C22_OutcomesClassified ==
    [][ /\ last'.op \in {"create_contract", "create_charge", "delete_charge"}
              => last'.result \in Classified
        /\ \A p \in CoreContractPatches :
              ( /\ last'.op = "update_contract"
                /\ ContractUpdateAdmits(p)
                /\ UpdateContract(last'.id, p) )
              => last'.result \in Classified
        /\ \A p \in CoreChargePatches :
              ( /\ last'.op = "update_charge"
                /\ ChargeUpdateAdmits(p)
                /\ UpdateCharge(last'.id, p) )
              => last'.result \in Classified ]_vars

\* C23: for every start date, every end date (null included) and every reference
\* date as_of, is_active returns true exactly when is_inactive returns false.
C23_ActiveIffNotInactive ==
    LET a == last.id IN
    /\ (last.op = "is_active")
          => (last.result = TRUE <=> ~is_inactive(a.as_of, a.start_date, a.end_date))
    /\ (last.op = "is_inactive")
          => (last.result = FALSE <=> is_active(a.as_of, a.start_date, a.end_date))

\* C23 witness: is_inactive answered false for a contract asked about on the very
\* day it ends
C23_Witness ==
    /\ last.op = "is_inactive" /\ last.result = FALSE
    /\ last.id.end_date = last.id.as_of
    /\ last.id.start_date < last.id.as_of

\* C24: for every stored contract C whose end date is non-null, the activity
\* predicate evaluated at as_of = C.end reports C as active.
C24_ActiveOnEndDate ==
    \A c \in DOMAIN contracts :
        contracts[c].end_date # Null
            => is_active(contracts[c].end_date, contracts[c].start_date,
                         contracts[c].end_date)

\* the number of days of a month of the Gregorian calendar
CalendarDays(month, year) ==
    IF month \in {1, 3, 5, 7, 8, 10, 12} THEN 31
    ELSE IF month \in {4, 6, 9, 11} THEN 30
    ELSE IF year % 400 = 0 \/ (year % 4 = 0 /\ year % 100 # 0) THEN 29
    ELSE 28

\* C25: for every month in 1..12 and year in 1900..2100, start normalization
\* yields day 1 of that month and year (reading back month and year returns the
\* input pair), and end normalization yields the last calendar day of that month
\* and year, 29 February in leap years and 28 February otherwise.
C25_NormalizationOfMonthYear ==
    LET a == last.id IN
    /\ (last.op = "start_date")
          => /\ DateDay(last.result) = 1
             /\ DateMonth(last.result) = a.month
             /\ DateYear(last.result) = a.year
    /\ (last.op = "end_date")
          => /\ DateDay(last.result) = CalendarDays(a.month, a.year)
             /\ DateMonth(last.result) = a.month
             /\ DateYear(last.result) = a.year

\* C25 witness: the end of February 1900, a century year that is not a leap year
C25_Witness ==
    /\ last.op = "end_date"
    /\ last.id = [month |-> 2, year |-> 1900]
    /\ last.result = 19000228

\* some other apartment has the (floor, letter) pair
ApartmentPairTaken(id, floor, letter) ==
    \E a \in DOMAIN apartments \ {id} :
        apartments[a].floor = floor /\ apartments[a].letter = letter

\* C26: after any sequence of create_apartment and update_apartment calls, no two
\* distinct apartments share (floor, letter); an attempt that would give an
\* apartment the pair of another apartment fails with DuplicateResource, while the
\* same floor with a different letter, or re-saving an apartment with its own
\* pair, succeeds.
C26_NoTwoApartmentsSharePair ==
    \A a, b \in DOMAIN apartments :
        (a # b) => ~(/\ apartments[a].floor = apartments[b].floor
                     /\ apartments[a].letter = apartments[b].letter)

C26_CreateRefusedIffPairTaken ==
    \A f \in Floors, l \in Letters :
        (last'.op = "create_apartment" /\ CreateApartment(f, l))
        => IF ApartmentPairTaken(Null, f, l)
           THEN last'.result = DuplicateResource /\ apartments' = apartments
           ELSE /\ last'.result = OK
                /\ apartments' = Put(apartments, last'.id, [floor |-> f, letter |-> l])

C26_UpdateRefusedIffPairTaken ==
    \A f \in Floors \cup {Null}, l \in Letters \cup {NoLetter} :
        LET id == last'.id
            floor == IF f = Null THEN apartments[id].floor ELSE f
            letter == IF l = NoLetter THEN apartments[id].letter ELSE l
        IN (last'.op = "update_apartment" /\ id \in DOMAIN apartments
            /\ UpdateApartment(id, f, l))
           => IF ApartmentPairTaken(id, floor, letter)
              THEN last'.result = DuplicateResource /\ apartments' = apartments
              ELSE /\ last'.result = OK
                   /\ apartments' = Put(apartments, id, [floor |-> floor, letter |-> letter])

C26_ApartmentKeyIsFloorAndLetter ==
    /\ []C26_NoTwoApartmentsSharePair
    /\ [][C26_CreateRefusedIffPairTaken /\ C26_UpdateRefusedIffPairTaken]_vars

\* C26 witness: with three apartments stored, an update succeeded on an apartment
\* that shares its floor, but not its letter, with another apartment
C26_Witness ==
    /\ last.op = "update_apartment" /\ last.result = OK
    /\ Cardinality(DOMAIN apartments) = 3
    /\ \E a \in DOMAIN apartments \ {last.id} :
          /\ apartments[a].floor = apartments[last.id].floor
          /\ apartments[a].letter # apartments[last.id].letter

\* C27: when an update_contract that narrows a contract's window runs at the same
\* time as a create_charge or update_charge on the same contract, then under every
\* interleaving of their reads and commits no committed state contains a charge
\* whose period is outside its contract's window.
C27_NoCommittedChargeOutsideWindow ==
    \A ch \in DOMAIN charges :
        LET c == charges[ch].contract_id
        IN  c \in DOMAIN contracts
                => InWindow(charges[ch].period, contracts[c].start_date,
                            contracts[c].end_date)

\* C28: when two create requests with the same uniqueness key (contract
\* (apartment, start date), or charge (contract, period)) both pass the pre-check
\* read before either commits, at most one row with that key is ever stored and
\* the losing request fails with DuplicateResource.
C28_LoserFailsAsDuplicate ==
    \A s \in Sessions :
        /\ ( /\ pending[s].op = "create_contract" /\ pending'[s] = Idle
             /\ PairTaken(Null, pending[s].row.apartment_id, pending[s].row.start_date) )
           => (last'.result = DuplicateResource /\ contracts' = contracts)
        /\ ( /\ pending[s].op = "create_charge" /\ pending'[s] = Idle
             /\ ChargePairTaken(Null, pending[s].row.contract_id, pending[s].row.period) )
           => (last'.result = DuplicateResource /\ charges' = charges)

C28_OneRowPerKeyLoserDuplicate ==
    /\ [](C7_NoTwoContractsSharePair /\ C8_NoTwoChargesSharePair)
    /\ [][C28_LoserFailsAsDuplicate]_vars

\* ceil(total / page_size)
PageCount(total, page_size) == (total + page_size - 1) \div page_size

\* C29: for a fixed set of stored contracts and fixed filters, every page of the
\* contract list reports a total equal to the number of contracts matching the
\* filters, and pages 1..ceil(total/page_size) return every matching contract
\* exactly once (none repeated, none skipped).
C29_PagesCoverEachContractOnce ==
    (last.op = "get_all_contracts") =>
        LET q == last.id
            matching == FilteredContracts(q.user, q.apartment, q.active, q.as_of)
            total == Cardinality(matching)
            pages == 1 .. PageCount(total, q.page_size)
        IN  /\ \A p \in DOMAIN last.result : last.result[p].total = total
            /\ (pages \subseteq DOMAIN last.result)
                  => \A c \in matching :
                        Cardinality({pi \in pages \X (1 .. q.page_size) :
                                        /\ pi[2] \in DOMAIN last.result[pi[1]].items
                                        /\ last.result[pi[1]].items[pi[2]] = c}) = 1

\* C30: starting from a state with at least one admin user, after any sequence
\* of user create, update and delete requests, each executed to completion before
\* the next begins, at least one user holding the admin role still exists.
C30_AdminAlwaysExists ==
    \E u \in DOMAIN users : RoleName(users[u].role_id) = "admin"

\* C30 witness: the first admin has been given another role by a user it had
\* made an admin, and has then been deleted
C30_Witness ==
    /\ last.op = "delete_user" /\ last.result = OK /\ last.id = 1
    /\ 1 \notin DOMAIN users

====
